---------------------------- MODULE Spec2Model ----------------------------
(***************************************************************************)
(* Orchestration runtime of db_architecture (src/src/agents): the          *)
(* per-worker circuit breaker, the agent registry, the orchestrator's      *)
(* dispatch and workflow engine, the event bus and the workflow validator. *)
(***************************************************************************)
EXTENDS Integers, Sequences, FiniteSets, TLC

(***************************************************************************)
(* Bounds of the model.                                                    *)
(***************************************************************************)
\* CircuitBreaker constructor parameters (circuit_breaker.py:64-80), kept small.
failure_threshold == 2
recovery_timeout == 1
success_threshold == 2
\* The clock stops at MaxTime; failures are recorded while the count is below
\* MaxFailureCount; at most MaxInFlight worker calls are pending per worker.
MaxTime == 4
MaxFailureCount == 3
MaxInFlight == 2
\* EventBus._max_history (1000 in event_bus.py:92), scaled down; at most
\* MaxEvents events are published and MaxSubs subscriptions are held.
max_history == 2
MaxEvents == 2
MaxSubs == 2
\* a workflow document has at most MaxSteps steps
MaxSteps == 2
\* a path has at most MaxPathLen characters, a rule list MaxPatterns patterns
MaxPathLen == 3
MaxPatterns == 1
\* at most MaxPublished events are published around the calls of
\* publish_and_wait and request
MaxPublished == 3

\* BaseAgent._token_limit (50000 in base_agent.py:92), scaled down; the
\* worker's counter and the units of an invocation are followed up to
\* MaxTokens
token_limit == 2
MaxTokens == 5

\* OrchestratorConfig.default_timeout, in seconds (300 in the code)
default_timeout == 3

\* dispatch_parallel is given at most MaxTasks tasks
MaxTasks == 2

\* OrchestratorConfig.enable_circuit_breaker (default configuration).
enable_circuit_breaker == TRUE

Workers == {"P", "S"}
Commands == {"parse", "save"}
None == "None"
\* CircuitBreaker._last_failure_time = None: no failure stamped yet
NoTime == -1

VARIABLES
    now,        \* datetime.utcnow(), in seconds
    breakers,   \* CircuitBreakerRegistry._breakers: worker id -> breaker
    agents,     \* AgentRegistry._agents: the registered worker ids
    inflight,   \* worker id -> number of execute() calls awaited by dispatch
    ret,        \* what the last finished operation returned
    subscribers,      \* EventBus._subscribers: event type -> handler list
    all_subscribers,  \* EventBus._all_subscribers
    event_history,    \* EventBus._event_history
    tasks,            \* the _safe_call tasks created and not yet run
    calls,            \* per event and handler, the handler's invocations
    audience,         \* per event, the subscriber lists when it was published
    raised,           \* _safe_call has caught and logged an exception
    escaped           \* an exception of a handler left _safe_call

VARIABLES
    workflow,         \* the Workflow that WorkflowParser.load returns
    params,           \* the params argument of execute_workflow
    problems,         \* the list returned by the last WorkflowParser.validate
    pc,               \* where the caller of validate / execute_workflow is
    wf_context,       \* the WorkflowContext of the run
    result,           \* the AgentResult execute_workflow returned
    invocations,      \* the execute() calls made on workers by _execute_step
    metrics,          \* OrchestratorAgent._metrics
    active_workflows  \* OrchestratorAgent._active_workflows (the ids)

VARIABLES
    allowed_paths,    \* BaseAgent._allowed_paths of the worker
    forbidden_paths,  \* BaseAgent._forbidden_paths of the worker
    file_path,        \* the argument of _check_scope
    scope_ret,        \* what _check_scope returned or raised
    par_tasks,        \* the tasks argument of dispatch_parallel
    par_pc,           \* where dispatch_parallel is
    par_started,      \* how many of its dispatch coroutines have started
    par_pending,      \* the tasks whose dispatch awaits agent.execute
    par_done,         \* the coroutines that ended, in the order they ended
    par_ret           \* the list dispatch_parallel returned

VARIABLES
    capabilities_index  \* AgentRegistry._capabilities_index: capability ->
                        \* the ids of the workers registered with it

VARIABLES
    pending_responses,  \* EventBus._pending_responses: correlation id -> the
                        \* caller whose future it holds
    futures,            \* per caller, the asyncio.Future of its call
    waits,              \* per caller, its publish_and_wait or request call
    response_handlers,  \* _subscribers on response.<id>: correlation id ->
                        \* the callers whose response_handler is subscribed
    response_tasks      \* the _safe_call tasks of response handlers that
                        \* are created and not yet run, oldest first

VARIABLES
    tokens_used,  \* BaseAgent._tokens_used of the worker
    executions    \* per invocation of the worker's execute: where it is, and
                  \* the units it has passed to _track_tokens since it began

orchVars == <<now, breakers, agents, inflight, ret>>
docVars == <<workflow, params, problems>>
runVars == <<pc, wf_context, result, invocations, metrics, active_workflows>>
scopeVars == <<allowed_paths, forbidden_paths, file_path, scope_ret>>
parVars == <<par_tasks, par_pc, par_started, par_pending, par_done, par_ret>>
waitVars == <<pending_responses, futures, waits, response_handlers,
              response_tasks>>
registryVars == <<capabilities_index>>
budgetVars == <<tokens_used, executions>>
auxVars == <<scopeVars, parVars, waitVars, registryVars, budgetVars>>
busVars == <<subscribers, all_subscribers, event_history, tasks, calls,
             audience, raised, escaped>>
vars == <<orchVars, busVars, docVars, runVars, auxVars>>

(***************************************************************************)
(* Workers: BaseAgent.get_capabilities of the registered implementations.  *)
(***************************************************************************)
get_capabilities(w) ==
    IF w = "P" THEN {"parse"}
    ELSE IF w = "Q" THEN {"parse", "save"}
    ELSE {"save"}

\* list.remove(x) under "if x in list": the first x is taken out
RECURSIVE remove(_, _)
remove(list, x) ==
    IF list = <<>> THEN <<>>
    ELSE IF Head(list) = x THEN Tail(list)
    ELSE <<Head(list)>> \o remove(Tail(list), x)

\* lines 76-79 of register: the id of worker w is appended to the list of
\* each of its capabilities
index_add(index, w) ==
    [c \in DOMAIN index \cup get_capabilities(w) |->
        IF c \in get_capabilities(w)
        THEN Append(IF c \in DOMAIN index THEN index[c] ELSE <<>>, w)
        ELSE index[c]]

\* unregister leaving the capability index as it is
index_remove_skipped(index, w) == index

\* lines 101-107 of unregister: the id of worker w is removed from the list
\* of each of its capabilities, and a list left empty is deleted
index_remove(index, w) ==
    LET left(c) == IF c \in get_capabilities(w) THEN remove(index[c], w)
                   ELSE index[c]
    IN  [c \in {x \in DOMAIN index :
                   x \in get_capabilities(w) => left(x) # <<>>} |-> left(c)]

\* the index of a registry in which the workers ws were registered
RECURSIVE IndexOf(_)
IndexOf(ws) ==
    IF ws = {} THEN [c \in {} |-> <<>>]
    ELSE LET w == CHOOSE x \in ws : TRUE
         IN  index_add(IndexOf(ws \ {w}), w)

(***************************************************************************)
(* CircuitBreaker                                                          *)
(***************************************************************************)
NewBreaker ==
    [state |-> "closed", failure_count |-> 0, success_count |-> 0,
     last_failure_time |-> NoTime]

\* _transition_to leaving the success count as it is on the way to closed
transition_to_keeps_success(cb, new_state) ==
    IF new_state = "closed"
    THEN [cb EXCEPT !.state = new_state, !.failure_count = 0]
    ELSE [cb EXCEPT !.state = new_state, !.success_count = 0]

transition_to(cb, new_state) ==
    IF new_state = "closed"
    THEN [cb EXCEPT !.state = new_state, !.failure_count = 0, !.success_count = 0]
    ELSE [cb EXCEPT !.state = new_state, !.success_count = 0]

\* can_execute with the recovery test off by one (>= for >)
can_execute_ge(cb, t) ==
    IF cb.state = "closed" THEN [ok |-> TRUE, cb |-> cb]
    ELSE IF cb.state = "open"
         THEN IF cb.last_failure_time # NoTime
                 /\ t - cb.last_failure_time >= recovery_timeout
              THEN [ok |-> TRUE, cb |-> transition_to(cb, "half_open")]
              ELSE [ok |-> FALSE, cb |-> cb]
         ELSE [ok |-> TRUE, cb |-> cb]

\* can_execute: the value returned and the breaker it leaves
can_execute(cb, t) ==
    IF cb.state = "closed" THEN [ok |-> TRUE, cb |-> cb]
    ELSE IF cb.state = "open"
         THEN IF cb.last_failure_time # NoTime
                 /\ t - cb.last_failure_time > recovery_timeout
              THEN [ok |-> TRUE, cb |-> transition_to(cb, "half_open")]
              ELSE [ok |-> FALSE, cb |-> cb]
         ELSE [ok |-> TRUE, cb |-> cb]

\* record_success closing only above the success threshold (> for >=)
record_success_gt(cb) ==
    IF cb.state = "half_open"
    THEN LET c == [cb EXCEPT !.success_count = @ + 1]
         IN  IF c.success_count > success_threshold
             THEN transition_to(c, "closed")
             ELSE c
    ELSE [cb EXCEPT !.failure_count = 0]

\* record_success leaving the failure count of a closed breaker as it is
record_success_keeps_count(cb) ==
    IF cb.state = "half_open"
    THEN LET c == [cb EXCEPT !.success_count = @ + 1]
         IN  IF c.success_count >= success_threshold
             THEN transition_to(c, "closed")
             ELSE c
    ELSE cb

record_success(cb) ==
    IF cb.state = "half_open"
    THEN LET c == [cb EXCEPT !.success_count = @ + 1]
         IN  IF c.success_count >= success_threshold
             THEN transition_to(c, "closed")
             ELSE c
    ELSE [cb EXCEPT !.failure_count = 0]

\* record_failure opening only above the failure threshold (> for >=)
record_failure_gt(cb, t) ==
    LET c == [cb EXCEPT !.failure_count = @ + 1, !.last_failure_time = t]
    IN  IF c.state = "half_open" THEN transition_to(c, "open")
        ELSE IF c.state = "closed" /\ c.failure_count > failure_threshold
             THEN transition_to(c, "open")
             ELSE c

\* record_failure treating half_open like closed: it waits for the threshold
record_failure_lenient(cb, t) ==
    LET c == [cb EXCEPT !.failure_count = @ + 1, !.last_failure_time = t]
    IN  IF c.state \in {"half_open", "closed"}
           /\ c.failure_count >= failure_threshold
        THEN transition_to(c, "open")
        ELSE c

\* record_failure stamping the time only while the breaker is not open
record_failure_unstamped(cb, t) ==
    LET c == [cb EXCEPT !.failure_count = @ + 1,
                        !.last_failure_time =
                            IF cb.state = "open" THEN @ ELSE t]
    IN  IF c.state = "half_open" THEN transition_to(c, "open")
        ELSE IF c.state = "closed" /\ c.failure_count >= failure_threshold
             THEN transition_to(c, "open")
             ELSE c

record_failure(cb, t) ==
    LET c == [cb EXCEPT !.failure_count = @ + 1, !.last_failure_time = t]
    IN  IF c.state = "half_open" THEN transition_to(c, "open")
        ELSE IF c.state = "closed" /\ c.failure_count >= failure_threshold
             THEN transition_to(c, "open")
             ELSE c

\* reset changing the state and the stamp only
reset_keeps_counts(cb) ==
    [cb EXCEPT !.state = "closed", !.last_failure_time = NoTime]

reset(cb) == [transition_to(cb, "closed") EXCEPT !.last_failure_time = NoTime]

force_open(cb, t) == [transition_to(cb, "open") EXCEPT !.last_failure_time = t]

\* CircuitBreakerRegistry.get_or_create: the registry after the lookup
get_or_create(bs, w) ==
    IF w \in DOMAIN bs THEN bs
    ELSE [x \in DOMAIN bs \cup {w} |-> IF x = w THEN NewBreaker ELSE bs[x]]

Bool(b) == IF b THEN "true" ELSE "false"

\* the breaker a caller of get_or_create(w) works on
BreakerOf(bs, w) == get_or_create(bs, w)[w]

\* The record of the last operation: its name, the worker id it was about,
\* the state of that worker's breaker when it was called, what it returned
\* (a truth value, an error_type, "ok" or "pending") and whether it invoked
\* the worker's execute.
Ret(op, w, before, kind, invoked) ==
    [op |-> op, target |-> w, before |-> before, kind |-> kind,
     invoked |-> invoked]

(***************************************************************************)
(* EventBus                                                                *)
(***************************************************************************)
EventTypes == {"test.event", "other.event"}
Handlers == {"h1", "h2"}
EventIds == 1 .. MaxEvents

InitBus ==
    /\ subscribers = [t \in EventTypes |-> <<>>]
    /\ all_subscribers = <<>>
    /\ event_history = <<>>
    /\ tasks = [e \in EventIds |-> [h \in Handlers |-> 0]]
    /\ calls = [e \in EventIds |-> [h \in Handlers |-> 0]]
    /\ audience = <<>>
    /\ raised = FALSE
    /\ escaped = FALSE

(***************************************************************************)
(* Strings, dictionaries and workflow documents.  A string is the sequence *)
(* of its tokens ("$", "{", ".", "}" and the names between them); a dict   *)
(* is a function on its keys.                                              *)
(***************************************************************************)
\* Python's None as a value of a dict
Nil == <<"None">>

EmptyDict == [k \in {} |-> Nil]

\* dict.get(k)
get(d, k) == IF k \in DOMAIN d THEN d[k] ELSE Nil

\* d[k] = v
put(d, k, v) == [x \in DOMAIN d \cup {k} |-> IF x = k THEN v ELSE d[x]]

\* d.update(e)
update(d, e) ==
    [x \in DOMAIN d \cup DOMAIN e |-> IF x \in DOMAIN e THEN e[x] ELSE d[x]]

\* value.startswith("${") and value.endswith("}")
startswith(value) == Len(value) >= 2 /\ value[1] = "$" /\ value[2] = "{"
endswith(value) == Len(value) >= 1 /\ value[Len(value)] = "}"

\* s.split(".")[0]
RECURSIVE split_first(_)
split_first(s) ==
    IF s = <<>> \/ Head(s) = "." THEN <<>>
    ELSE <<Head(s)>> \o split_first(Tail(s))

\* value[2:] and value[2:-1]
after_marker(value) == SubSeq(value, 3, Len(value))
var_path(value) == SubSeq(value, 3, Len(value) - 1)

\* the string "${step_id.output_key}" and the key f"{step_id}.{output_key}"
Key(step_id, output_key) == step_id \o <<".">> \o output_key
Reference(step_id, output_key) ==
    <<"$", "{">> \o Key(step_id, output_key) \o <<"}">>

\* WorkflowStep (workflow_parser.py:14-40): inputs in the order of the dict,
\* one <<key, value>> pair each; condition <<>> when the document has none;
\* parallel and timeout at their defaults, NoTime for the timeout None
WorkflowStep(id, block_id, action, inputs, outputs, on_failure, condition) ==
    [id |-> id, block_id |-> block_id, action |-> action, inputs |-> inputs,
     outputs |-> outputs, on_failure |-> on_failure, condition |-> condition,
     parallel |-> FALSE, timeout |-> NoTime]

\* WorkflowHooks with its default, empty lists
WorkflowHooks == [on_start |-> <<>>, on_complete |-> <<>>, on_error |-> <<>>]

Workflow(steps) == [steps |-> steps, hooks |-> WorkflowHooks]

Digits == <<"1", "2", "3", "4", "5", "6", "7", "8", "9">>
StepId(i) == <<"step", Digits[i]>>

\* WorkflowContext before execute_workflow has made one
NoContext ==
    [status |-> "absent", current_step |-> 0, total_steps |-> 0,
     step_results |-> EmptyDict, accumulated_data |-> EmptyDict,
     errors |-> <<>>]

\* AgentResult: success_result(data) and failure_result(error_type)
success_result(data) == [success |-> TRUE, data |-> data, error_type |-> None]
failure_result(error_type) ==
    [success |-> FALSE, data |-> EmptyDict, error_type |-> error_type]

NoResult == [success |-> FALSE, data |-> EmptyDict, error_type |-> "pending"]

InitRun ==
    /\ problems = <<>>
    /\ pc = "idle"
    /\ wf_context = NoContext
    /\ result = NoResult
    /\ invocations = <<>>
    /\ metrics = [workflows_executed |-> 0, workflows_succeeded |-> 0,
                  workflows_failed |-> 0]
    /\ active_workflows = {}

\* the callers of publish_and_wait and request, the correlation ids they
\* use and the payloads of events
Callers == {1, 2}
CorrelationIds == {"k1", "k2"}
Datas == {"a", "b"}

\* a caller that has not called, and the future it does not have
NoWait == [op |-> None, pc |-> "idle", correlation_id |-> None,
           event_id |-> 0, ret |-> None]
NoFuture == [state |-> "none", result |-> None]

\* EventBus.__init__ (line 89), and no publish_and_wait and no request
InitWait ==
    /\ pending_responses = [k \in {} |-> 0]
    /\ futures = [c \in Callers |-> NoFuture]
    /\ waits = [c \in Callers |-> NoWait]
    /\ response_handlers = [k \in CorrelationIds |-> <<>>]
    /\ response_tasks = <<>>

\* AgentRegistry: the capability index of the workers that are registered
InitRegistry == capabilities_index = IndexOf(agents)

\* the invocations of the worker's execute, and the unit counts they pass to
\* _track_tokens
Executions == {1, 2}
Units == {1, 2}

\* BaseAgent.__init__ (line 86), and no invocation of execute
InitBudget ==
    /\ tokens_used = 0
    /\ executions = [c \in Executions |-> [pc |-> "idle", added |-> 0]]

\* no _check_scope, no dispatch_parallel and no publish_and_wait or request
\* has been called
InitScope ==
    /\ InitRegistry
    /\ InitBudget
    /\ InitWait
    /\ allowed_paths = <<>>
    /\ forbidden_paths = <<>>
    /\ file_path = <<>>
    /\ scope_ret = "pending"
    /\ par_tasks = <<>>
    /\ par_pc = "idle"
    /\ par_started = 0
    /\ par_pending = {}
    /\ par_done = <<>>
    /\ par_ret = <<>>

(***************************************************************************)
(* Initial state: a fresh orchestrator, an empty registry.                 *)
(***************************************************************************)
Init ==
    /\ now = 0
    /\ breakers = [w \in {} |-> NewBreaker]
    /\ agents = {}
    /\ inflight = [w \in Workers |-> 0]
    /\ ret = Ret("init", None, None, None, FALSE)
    /\ InitBus
    /\ workflow = Workflow(<<>>)
    /\ params = EmptyDict
    /\ InitRun
    /\ InitScope

Tick ==
    /\ now < MaxTime
    /\ now' = now + 1
    /\ ret' = Ret("tick", None, None, None, FALSE)
    /\ UNCHANGED <<breakers, agents, inflight, busVars, docVars, runVars, auxVars>>

(***************************************************************************)
(* The breaker's own operations, called on the breaker of worker w.        *)
(***************************************************************************)
CanExecute(w) ==
    LET bs == get_or_create(breakers, w)
        r == can_execute(bs[w], now)
    IN  /\ breakers' = [bs EXCEPT ![w] = r.cb]
        /\ ret' = Ret("can_execute", w, bs[w].state, Bool(r.ok), FALSE)
        /\ UNCHANGED <<now, agents, inflight, busVars, docVars, runVars, auxVars>>

RecordSuccess(w) ==
    LET bs == get_or_create(breakers, w)
    IN  /\ breakers' = [bs EXCEPT ![w] = record_success(bs[w])]
        /\ ret' = Ret("record_success", w, bs[w].state, None, FALSE)
        /\ UNCHANGED <<now, agents, inflight, busVars, docVars, runVars, auxVars>>

RecordFailure(w) ==
    LET bs == get_or_create(breakers, w)
    IN  /\ bs[w].failure_count < MaxFailureCount
        /\ breakers' = [bs EXCEPT ![w] = record_failure(bs[w], now)]
        /\ ret' = Ret("record_failure", w, bs[w].state, None, FALSE)
        /\ UNCHANGED <<now, agents, inflight, busVars, docVars, runVars, auxVars>>

Reset(w) ==
    LET bs == get_or_create(breakers, w)
    IN  /\ breakers' = [bs EXCEPT ![w] = reset(bs[w])]
        /\ ret' = Ret("reset", w, bs[w].state, None, FALSE)
        /\ UNCHANGED <<now, agents, inflight, busVars, docVars, runVars, auxVars>>

ForceOpen(w) ==
    LET bs == get_or_create(breakers, w)
    IN  /\ breakers' = [bs EXCEPT ![w] = force_open(bs[w], now)]
        /\ ret' = Ret("force_open", w, bs[w].state, None, FALSE)
        /\ UNCHANGED <<now, agents, inflight, busVars, docVars, runVars, auxVars>>

\* CircuitBreakerRegistry.reset_all: reset() on every breaker it holds.  The
\* record of the call says "open" when it held a breaker for every worker
\* and all of them were open.
ResetAll ==
    /\ breakers' = [w \in DOMAIN breakers |-> reset(breakers[w])]
    /\ ret' = Ret("reset_all", None,
                  IF DOMAIN breakers = Workers
                     /\ \A w \in Workers : breakers[w].state = "open"
                  THEN "open" ELSE None,
                  None, FALSE)
    /\ UNCHANGED <<now, agents, inflight, busVars, docVars, runVars, auxVars>>

(***************************************************************************)
(* AgentRegistry                                                           *)
(***************************************************************************)
register(w) ==
    /\ IF w \in agents
       THEN /\ UNCHANGED <<agents, capabilities_index>>
            /\ ret' = Ret("register", w, None, "ValueError", FALSE)
       ELSE /\ agents' = agents \cup {w}
            /\ capabilities_index' = index_add(capabilities_index, w)
            /\ ret' = Ret("register", w, None, None, FALSE)
    /\ UNCHANGED <<now, breakers, inflight, busVars, docVars, runVars,
                   scopeVars, parVars, waitVars,
                   budgetVars>>

unregister(w) ==
    /\ agents' = agents \ {w}
    /\ capabilities_index' =
          IF w \in agents THEN index_remove(capabilities_index, w)
          ELSE capabilities_index
    /\ ret' = Ret("unregister", w, None, Bool(w \in agents), FALSE)
    /\ UNCHANGED <<now, breakers, inflight, busVars, docVars, runVars,
                   scopeVars, parVars, waitVars,
                   budgetVars>>

\* AgentRegistry.clear
clear ==
    /\ agents' = {}
    /\ capabilities_index' = [c \in {} |-> <<>>]
    /\ ret' = Ret("clear", None, None, None, FALSE)
    /\ UNCHANGED <<now, breakers, inflight, busVars, docVars, runVars,
                   scopeVars, parVars, waitVars,
                   budgetVars>>

\* AgentRegistry.find_by_capability: the ids of the agents it returns
RECURSIVE present(_, _)
present(block_ids, ws) ==
    IF block_ids = <<>> THEN <<>>
    ELSE IF Head(block_ids) \in ws
         THEN <<Head(block_ids)>> \o present(Tail(block_ids), ws)
         ELSE present(Tail(block_ids), ws)

find_by_capability(capability) ==
    present(IF capability \in DOMAIN capabilities_index
               THEN capabilities_index[capability] ELSE <<>>,
               agents)

(***************************************************************************)
(* OrchestratorAgent.dispatch, up to the await of agent.execute            *)
(***************************************************************************)
\* dispatch without the breaker gate
route_ungated(permitted, registered, capable) ==
    IF ~registered THEN "AgentNotFoundError"
    ELSE IF ~capable THEN "CapabilityNotFoundError"
    ELSE "pending"

\* dispatch without the registry lookup's None test
route_unchecked(permitted, registered, capable) ==
    IF ~permitted THEN "CircuitBreakerOpenError"
    ELSE IF registered /\ ~capable THEN "CapabilityNotFoundError"
    ELSE "pending"

\* dispatch without the capability test
route_any_command(permitted, registered, capable) ==
    IF ~permitted THEN "CircuitBreakerOpenError"
    ELSE IF ~registered THEN "AgentNotFoundError"
    ELSE "pending"

\* The checks of dispatch in their order: the breaker gate, the registry
\* lookup, the capability test; "pending" when the worker is to be invoked.
route(permitted, registered, capable) ==
    IF ~permitted THEN "CircuitBreakerOpenError"
    ELSE IF ~registered THEN "AgentNotFoundError"
    ELSE IF ~capable THEN "CapabilityNotFoundError"
    ELSE "pending"

\* dispatch recording a failure on the breaker when it refuses the call for
\* the registry lookup or the capability test
dispatch_recording(command, target_block) ==
    LET bs == IF enable_circuit_breaker
              THEN get_or_create(breakers, target_block) ELSE breakers
        before == BreakerOf(breakers, target_block).state
        r == IF enable_circuit_breaker
             THEN can_execute(bs[target_block], now)
             ELSE [ok |-> TRUE, cb |-> NewBreaker]
        kind == route(r.ok, target_block \in agents,
                      command \in get_capabilities(target_block))
        routing == kind \in {"AgentNotFoundError", "CapabilityNotFoundError"}
    IN  /\ routing => r.cb.failure_count < MaxFailureCount
        /\ breakers' = IF enable_circuit_breaker
                       THEN [bs EXCEPT ![target_block] =
                                IF routing THEN record_failure(r.cb, now)
                                ELSE r.cb]
                       ELSE breakers
        /\ IF kind = "pending"
           THEN /\ inflight[target_block] < MaxInFlight
                /\ inflight' = [inflight EXCEPT ![target_block] = @ + 1]
           ELSE UNCHANGED inflight
        /\ ret' = Ret("dispatch", target_block, before, kind, kind = "pending")
        /\ UNCHANGED <<now, agents, busVars, docVars, runVars, auxVars>>

dispatch(command, target_block) ==
    LET bs == IF enable_circuit_breaker
              THEN get_or_create(breakers, target_block) ELSE breakers
        before == BreakerOf(breakers, target_block).state
        r == IF enable_circuit_breaker
             THEN can_execute(bs[target_block], now)
             ELSE [ok |-> TRUE, cb |-> NewBreaker]
        kind == route(r.ok, target_block \in agents,
                      command \in get_capabilities(target_block))
    IN  /\ breakers' = IF enable_circuit_breaker
                       THEN [bs EXCEPT ![target_block] = r.cb] ELSE breakers
        /\ IF kind = "pending"
           THEN /\ inflight[target_block] < MaxInFlight
                /\ inflight' = [inflight EXCEPT ![target_block] = @ + 1]
           ELSE UNCHANGED inflight
        /\ ret' = Ret("dispatch", target_block, before, kind, kind = "pending")
        /\ UNCHANGED <<now, agents, busVars, docVars, runVars, auxVars>>

\* the worker's outcome: a success result, a failure result, or an exception
Outcomes == {"success", "failure", "raise"}

\* dispatch recording nothing for a worker that raised
record_outcome_returned(cb, outcome, t) ==
    IF outcome = "success" THEN record_success(cb)
    ELSE IF outcome = "raise" THEN cb
    ELSE record_failure(cb, t)

\* lines 481-494: what dispatch records on the worker's breaker: a success
\* for a result with success true, a failure for any other result and in
\* the except clause
record_outcome(cb, outcome, t) ==
    IF outcome = "success" THEN record_success(cb) ELSE record_failure(cb, t)

\* dispatch, from the return of agent.execute to the return of dispatch
dispatch_return(target_block, outcome) ==
    LET bs == get_or_create(breakers, target_block)
        cb == bs[target_block]
    IN  /\ inflight[target_block] > 0
        /\ outcome # "success" => cb.failure_count < MaxFailureCount
        /\ inflight' = [inflight EXCEPT ![target_block] = @ - 1]
        /\ breakers' =
             IF ~enable_circuit_breaker THEN breakers
             ELSE [bs EXCEPT ![target_block] = record_outcome(cb, outcome, now)]
        /\ ret' = Ret("dispatch_return", target_block, cb.state,
                      CASE outcome = "success" -> "ok"
                        [] outcome = "failure" -> "AgentError"
                        [] OTHER -> "RuntimeError",
                      TRUE)
        /\ UNCHANGED <<now, agents, busVars, docVars, runVars, auxVars>>

(***************************************************************************)
(* EventBus operations                                                     *)
(***************************************************************************)
SubscriptionCount ==
    Len(all_subscribers)
        + Len(subscribers["test.event"]) + Len(subscribers["other.event"])

subscribe(event_type, handler) ==
    /\ SubscriptionCount < MaxSubs
    /\ subscribers' = [subscribers EXCEPT ![event_type] = Append(@, handler)]
    /\ UNCHANGED <<all_subscribers, event_history, tasks, calls, audience,
                   raised, escaped, orchVars, docVars,
                   runVars, auxVars>>

subscribe_all(handler) ==
    /\ SubscriptionCount < MaxSubs
    /\ all_subscribers' = Append(all_subscribers, handler)
    /\ UNCHANGED <<subscribers, event_history, tasks, calls, audience,
                   raised, escaped, orchVars, docVars,
                   runVars, auxVars>>

\* the pending tasks after one _safe_call task is created for each entry of
\* the handler list
RECURSIVE create_tasks(_, _, _)
create_tasks(pending, event_id, handlers) ==
    IF handlers = <<>> THEN pending
    ELSE create_tasks([pending EXCEPT ![event_id][Head(handlers)] = @ + 1],
                      event_id, Tail(handlers))

\* publish: the handlers of the event's type, then the all-events handlers
spawn(pending, event_id, event_type) ==
    create_tasks(create_tasks(pending, event_id,
                              IF event_type \in DOMAIN subscribers
                              THEN subscribers[event_type] ELSE <<>>),
                 event_id, all_subscribers)

\* the history cut to its first max_history entries
trim_newest(history) ==
    IF Len(history) > max_history
    THEN SubSeq(history, 1, max_history)
    ELSE history

\* the history after an append: the last max_history entries
trim(history) ==
    IF Len(history) > max_history
    THEN SubSeq(history, Len(history) - max_history + 1, Len(history))
    ELSE history

\* the part of the bus that publish writes
Bus == [event_history |-> event_history, tasks |-> tasks, audience |-> audience]

\* EventBus.publish of a new event of type event_type carrying data: the bus
\* it leaves
publish(bus, event_type, data) ==
    LET event_id == Len(bus.audience) + 1
        event == [id |-> event_id, type |-> event_type, data |-> data]
    IN  [event_history |-> trim(Append(bus.event_history, event)),
         tasks |-> spawn(bus.tasks, event_id, event_type),
         audience |-> Append(bus.audience,
                             [type |-> event_type, data |-> data,
                              exact |-> IF event_type \in DOMAIN subscribers
                                        THEN subscribers[event_type] ELSE <<>>,
                              all |-> all_subscribers])]

\* the bus variables after the publishes that left bus
Published(bus) ==
    /\ event_history' = bus.event_history
    /\ tasks' = bus.tasks
    /\ audience' = bus.audience
    /\ UNCHANGED <<subscribers, all_subscribers, calls, raised, escaped>>

\* Event.data of an event that carries none
NoData == [step_id |-> <<>>, success |-> FALSE]

Publish(event_type) ==
    /\ Len(audience) < MaxEvents
    /\ Published(publish(Bus, event_type, NoData))
    /\ UNCHANGED <<orchVars, docVars, runVars, auxVars>>

\* the tasks left when a task of handler h for event e has run
drop(e, h) == [tasks EXCEPT ![e][h] = @ - 1]

\* the tasks left when the handlers of event e are run in one loop and one
\* of them raises outside a try: the loop stops there
abandon(e) == [tasks EXCEPT ![e] = [h \in Handlers |-> 0]]

\* a handler call with no try/except around it
after_raise_uncaught(e, h) == [tasks |-> abandon(e), escaped |-> TRUE]

\* what a raising handler does to the pending tasks and to the event loop:
\* _safe_call catches and logs the exception
after_raise(e, h) == [tasks |-> drop(e, h), escaped |-> escaped]

\* EventBus._safe_call: the event loop runs a pending task of handler h for
\* event e, and the handler returns or raises
safe_call(e, h, raises) ==
    LET r == IF raises THEN after_raise(e, h)
             ELSE [tasks |-> drop(e, h), escaped |-> escaped]
    IN  /\ tasks[e][h] > 0
        /\ calls' = [calls EXCEPT ![e][h] = @ + 1]
        /\ tasks' = r.tasks
        /\ escaped' = r.escaped
        /\ raised' = (raised \/ raises)
        /\ UNCHANGED <<subscribers, all_subscribers, event_history, audience,
                       orchVars, docVars, runVars, auxVars>>

(***************************************************************************)
(* WorkflowParser.validate                                                 *)
(***************************************************************************)
Problem(msg, step, detail) == [msg |-> msg, step |-> step, detail |-> detail]

valid_failures == {"abort", "skip", "rollback", "continue"}

\* the first loop of validate over the steps left, step_ids being the ids of
\* the steps before them
RECURSIVE check_steps(_, _)
check_steps(steps, step_ids) ==
    IF steps = <<>> THEN <<>>
    ELSE LET step == Head(steps)
         IN  (IF step.id \in step_ids
              THEN <<Problem("Duplicate step ID", step.id, step.id)>>
              ELSE <<>>)
             \o (IF step.block_id = ""
                 THEN <<Problem("missing block_id", step.id, <<>>)>>
                 ELSE <<>>)
             \o (IF step.action = ""
                 THEN <<Problem("missing action", step.id, <<>>)>>
                 ELSE <<>>)
             \o (IF step.on_failure \notin valid_failures
                 THEN <<Problem("invalid on_failure", step.id,
                                <<step.on_failure>>)>>
                 ELSE <<>>)
             \o check_steps(Tail(steps), step_ids \cup {step.id})

\* the inner loop of the second loop: the inputs of one step
RECURSIVE check_inputs(_, _, _)
check_inputs(inputs, step, step_ids) ==
    IF inputs = <<>> THEN <<>>
    ELSE LET value == Head(inputs)[2]
             ref_step_id == split_first(after_marker(value))
         IN  (IF startswith(value) /\ ref_step_id \notin step_ids
              THEN <<Problem("references unknown step", step.id, ref_step_id)>>
              ELSE <<>>)
             \o check_inputs(Tail(inputs), step, step_ids)

\* the second loop of validate, step_ids being the ids of all the steps
RECURSIVE check_references(_, _)
check_references(steps, step_ids) ==
    IF steps = <<>> THEN <<>>
    ELSE check_inputs(Head(steps).inputs, Head(steps), step_ids)
         \o check_references(Tail(steps), step_ids)

StepIdsOf(steps) == {steps[i].id : i \in 1 .. Len(steps)}

\* validate without the test for an empty step list
validate_lenient(wf) ==
    check_steps(wf.steps, {})
        \o check_references(wf.steps, StepIdsOf(wf.steps))

validate(wf) ==
    (IF wf.steps = <<>>
     THEN <<Problem("Workflow has no steps", <<>>, <<>>)>> ELSE <<>>)
        \o check_steps(wf.steps, {})
        \o check_references(wf.steps, StepIdsOf(wf.steps))

\* a caller validates the workflow it has parsed
Validate ==
    /\ pc = "idle"
    /\ problems' = validate(workflow)
    /\ pc' = "validated"
    /\ UNCHANGED <<workflow, params, wf_context, result, invocations, metrics,
                   active_workflows, orchVars, busVars, auxVars>>

(***************************************************************************)
(* OrchestratorAgent.execute_workflow                                      *)
(***************************************************************************)
WorkflowId == "wf"

\* A value that is a list or a dict is the sequence of its items after the
\* name of its type; every other value is a string
ListOf(items) == <<"list">> \o items
DictOf(items) == <<"dict">> \o items

\* isinstance(value, (list, dict)) and len(value)
is_collection(value) == value # <<>> /\ value[1] \in {"list", "dict"}
len(value) == Len(value) - 1

\* _evaluate_condition taking every value that is not None for true
evaluate_condition_present(condition, ctx) ==
    IF startswith(condition) /\ endswith(condition)
    THEN get(ctx.accumulated_data, var_path(condition)) # Nil
    ELSE TRUE

\* _evaluate_condition
evaluate_condition(condition, ctx) ==
    IF startswith(condition) /\ endswith(condition)
    THEN LET value == get(ctx.accumulated_data, var_path(condition))
         IN  value # Nil /\ (~is_collection(value) \/ len(value) > 0)
    ELSE TRUE

\* _resolve_inputs over the pairs of inputs left, resolved being the dict
\* built so far
RECURSIVE resolve_inputs(_, _, _)
resolve_inputs(inputs, ctx, resolved) ==
    IF inputs = <<>> THEN resolved
    ELSE LET key == Head(inputs)[1]
             value == Head(inputs)[2]
         IN  resolve_inputs(Tail(inputs), ctx,
                put(resolved, key,
                    IF startswith(value) /\ endswith(value)
                    THEN get(ctx.accumulated_data, var_path(value))
                    ELSE value))

\* A hook of the document: {log: <template>}, {notify: ...} or a mapping
\* with neither key; template tells whether the value under log is a string
Hook(kind, template) == [kind |-> kind, template |-> template]

\* _execute_hooks: the bus it leaves and whether it raised.  A log hook
\* hands its template to re.sub, which raises TypeError for a value that is
\* not a string; a notify hook publishes workflow.notification; the hooks
\* after one that raised are not run.
RECURSIVE execute_hooks(_, _)
execute_hooks(bus, hooks) ==
    IF hooks = <<>> THEN [bus |-> bus, raised |-> FALSE]
    ELSE IF Head(hooks).kind = "log"
         THEN IF Head(hooks).template # "str"
              THEN [bus |-> bus, raised |-> TRUE]
              ELSE execute_hooks(bus, Tail(hooks))
    ELSE IF Head(hooks).kind = "notify"
         THEN execute_hooks(publish(bus, "workflow.notification", NoData),
                            Tail(hooks))
    ELSE execute_hooks(bus, Tail(hooks))

\* lines 185-192: the declared outputs found in the payload go to
\* accumulated_data under "step_id.output_key"
RECURSIVE accumulate(_, _, _, _)
accumulate(acc, step_id, outputs, data) ==
    IF outputs = <<>> THEN acc
    ELSE accumulate(IF Head(outputs) \in DOMAIN data
                    THEN put(acc, Key(step_id, Head(outputs)),
                             data[Head(outputs)])
                    ELSE acc,
                    step_id, Tail(outputs), data)

\* a step marked parallel is started and the loop goes on without awaiting it
invoke_unawaited(wf, i, ctx, bus) ==
    [pc |-> IF wf.steps[i].parallel /\ i < Len(wf.steps)
            THEN "loop" ELSE "await",
     wf_context |-> ctx, bus |-> bus, result |-> NoResult]

\* line 298: step.timeout or self.config.default_timeout
timeout_seconds(step) ==
    IF step.timeout \in {NoTime, 0} THEN default_timeout ELSE step.timeout

\* lines 175-179 and 305-308: the loop awaits _execute_step, which awaits
\* agent.execute of step i, whatever the step's parallel flag
invoke(wf, i, ctx, bus) ==
    [pc |-> "await", wf_context |-> ctx, bus |-> bus, result |-> NoResult]

\* where execute_workflow stands after some of its code has run: sleeping in
\* the loop (pc "loop", "await"), returned (pc "done") with res, or left by
\* an exception (pc "raised")
Frame(where, ctx, bus, res) ==
    [pc |-> where, wf_context |-> ctx, bus |-> bus, result |-> res]

\* the except clause of execute_workflow, lines 252-258, entered with the
\* TypeError of a hook: when an on_error hook raises in it, the exception
\* leaves execute_workflow
on_exception(wf, ctx, bus) ==
    LET c == [ctx EXCEPT !.status = "failed",
                         !.errors = Append(@, [step |-> <<>>,
                                               error |-> "TypeError"])]
        h == execute_hooks(bus, wf.hooks.on_error)
    IN  IF h.raised THEN Frame("raised", c, h.bus, NoResult)
        ELSE Frame("done", c, h.bus, failure_result("TypeError"))

\* the completion running the on_error hooks in place of the on_complete
\* hooks
next_step_on_error(wf, i, ctx, bus) ==
    IF i < Len(wf.steps) THEN Frame("loop", ctx, bus, NoResult)
    ELSE LET c == [ctx EXCEPT !.status = "completed"]
             h == execute_hooks(bus, wf.hooks.on_error)
         IN  IF h.raised THEN on_exception(wf, c, h.bus)
             ELSE Frame("done", c, h.bus, success_result(EmptyDict))

\* the loop goes on with the step after step i, or ends: lines 233-250
next_step(wf, i, ctx, bus) ==
    IF i < Len(wf.steps) THEN Frame("loop", ctx, bus, NoResult)
    ELSE LET c == [ctx EXCEPT !.status = "completed"]
             h == execute_hooks(bus, wf.hooks.on_complete)
         IN  IF h.raised THEN on_exception(wf, c, h.bus)
             ELSE Frame("done", c, h.bus, success_result(EmptyDict))

\* on_failure "abort" handled like "continue": the loop goes on
on_abort_continue(wf, i, ctx, bus) ==
    next_step(wf, i, ctx,
              publish(bus, "workflow.step.completed",
                      [step_id |-> wf.steps[i].id, success |-> FALSE]))

\* what on_failure "abort" does with the run: lines 200-207
on_abort(wf, i, ctx, bus) ==
    LET c == [ctx EXCEPT !.status = "failed"]
        h == execute_hooks(bus, wf.hooks.on_error)
    IN  IF h.raised THEN on_exception(wf, c, h.bus)
        ELSE Frame("done", c, h.bus, failure_result("WorkflowAbortedError"))

\* on_failure "rollback" running the on_error hooks before _rollback_workflow
on_rollback_hooks_first(wf, i, ctx, bus) ==
    LET h == execute_hooks(bus, wf.hooks.on_error)
        b == publish(h.bus, "workflow.rollback",
                     [step_id |-> wf.steps[i].id, success |-> FALSE])
    IN  IF h.raised THEN on_exception(wf, ctx, h.bus)
        ELSE Frame("done", ctx, b, failure_result("WorkflowRollbackError"))

\* what on_failure "rollback" does with the run: lines 209-216 and
\* _rollback_workflow
on_rollback(wf, i, ctx, bus) ==
    LET h == execute_hooks(
                publish(bus, "workflow.rollback",
                        [step_id |-> wf.steps[i].id, success |-> FALSE]),
                wf.hooks.on_error)
    IN  IF h.raised THEN on_exception(wf, ctx, h.bus)
        ELSE Frame("done", ctx, h.bus, failure_result("WorkflowRollbackError"))

\* the loop still awaiting the worker when the deadline of wait_for passed
after_step_unbounded(wf, i, res, ctx, bus) ==
    IF ~res.success /\ res.error_type = "TimeoutError"
    THEN Frame("await", ctx, bus, NoResult)
    ELSE LET step == wf.steps[i]
             c1 == [ctx EXCEPT !.step_results = put(@, step.id, res)]
             c2 == IF res.success /\ DOMAIN res.data # {}
                   THEN [c1 EXCEPT !.accumulated_data =
                             accumulate(@, step.id, step.outputs, res.data)]
                   ELSE c1
             c3 == [c2 EXCEPT !.errors =
                       Append(@, [step |-> step.id,
                                  error |-> res.error_type])]
             done == [step_id |-> step.id, success |-> res.success]
         IN  IF res.success
             THEN next_step(wf, i, c2,
                            publish(bus, "workflow.step.completed", done))
             ELSE IF step.on_failure = "abort" THEN on_abort(wf, i, c3, bus)
             ELSE IF step.on_failure = "rollback"
                  THEN on_rollback(wf, i, c3, bus)
             ELSE next_step(wf, i, c3,
                            publish(bus, "workflow.step.completed", done))

\* the loop body after _execute_step has returned res for step i: lines
\* 181-230, and the completion when it was the last step
after_step(wf, i, res, ctx, bus) ==
    LET step == wf.steps[i]
        c1 == [ctx EXCEPT !.step_results = put(@, step.id, res)]
        c2 == IF res.success /\ DOMAIN res.data # {}
              THEN [c1 EXCEPT !.accumulated_data =
                        accumulate(@, step.id, step.outputs, res.data)]
              ELSE c1
        c3 == [c2 EXCEPT !.errors =
                  Append(@, [step |-> step.id, error |-> res.error_type])]
        done == [step_id |-> step.id, success |-> res.success]
    IN  IF res.success
        THEN next_step(wf, i, c2, publish(bus, "workflow.step.completed", done))
        ELSE IF step.on_failure = "abort" THEN on_abort(wf, i, c3, bus)
        ELSE IF step.on_failure = "rollback" THEN on_rollback(wf, i, c3, bus)
        ELSE next_step(wf, i, c3,
                       publish(bus, "workflow.step.completed", done))

\* the state execute_workflow leaves when it stands at frame f
Resume(f) ==
    /\ pc' = f.pc
    /\ wf_context' = f.wf_context
    /\ result' = f.result
    /\ Published(f.bus)
    /\ metrics' =
         IF f.pc # "done" THEN metrics
         ELSE IF f.result.success
              THEN [metrics EXCEPT !.workflows_succeeded = @ + 1]
              ELSE [metrics EXCEPT !.workflows_failed = @ + 1]
    /\ active_workflows' =
         IF f.pc \in {"done", "raised"} THEN active_workflows \ {WorkflowId}
         ELSE active_workflows

\* what WorkflowParser.load does for the name: it returns the workflow, or
\* raises FileNotFoundError or another exception
Loads == {"loaded", "FileNotFoundError", "Exception"}

\* execute_workflow running a workflow whatever validate says of it
refusal_unvalidated(load, errors) ==
    IF load = "FileNotFoundError" THEN "WorkflowNotFoundError"
    ELSE IF load = "Exception" THEN "WorkflowParseError"
    ELSE None

\* lines 122-143: the error_type of the failure result that execute_workflow
\* returns before it starts a run, None when it starts one; errors is what
\* validate returned for the workflow loaded
refusal(load, errors) ==
    IF load = "FileNotFoundError" THEN "WorkflowNotFoundError"
    ELSE IF load = "Exception" THEN "WorkflowParseError"
    ELSE IF errors # <<>> THEN "WorkflowValidationError"
    ELSE None

\* execute_workflow from its call to the first iteration of the loop:
\* lines 119-163
execute_workflow(load) ==
    LET errors == validate(workflow)
        refused == refusal(load, errors)
        h == execute_hooks(Bus, workflow.hooks.on_start)
        ctx == [NoContext EXCEPT
                   !.status = "running",
                   !.total_steps = Len(workflow.steps),
                   !.accumulated_data =
                       IF DOMAIN params # {} THEN update(@, params) ELSE @]
    IN  /\ pc = "idle"
        /\ problems' = IF load = "loaded" THEN errors ELSE problems
        /\ IF refused # None
           THEN /\ pc' = "done"
                /\ result' = failure_result(refused)
                /\ metrics' = [metrics EXCEPT !.workflows_executed = @ + 1,
                                              !.workflows_failed = @ + 1]
                /\ UNCHANGED <<wf_context, active_workflows, busVars>>
           ELSE /\ pc' = IF h.raised THEN "raised" ELSE "loop"
                /\ wf_context' = ctx
                /\ result' = NoResult
                /\ metrics' = [metrics EXCEPT !.workflows_executed = @ + 1]
                /\ active_workflows' = active_workflows \cup {WorkflowId}
                /\ Published(h.bus)
        /\ ret' = Ret("execute_workflow", None, None, None, FALSE)
        /\ UNCHANGED <<now, breakers, agents, inflight, invocations, workflow,
                       params, auxVars>>

\* One iteration of the loop, from its head to the await of agent.execute
\* in _execute_step, or through the iteration when the worker is not called:
\* lines 164-179 and 273-306
begin_step ==
    LET i == wf_context.current_step + 1
        step == workflow.steps[i]
        ctx == [wf_context EXCEPT !.current_step = i]
        bs == IF enable_circuit_breaker
              THEN get_or_create(breakers, step.block_id) ELSE breakers
        r == IF enable_circuit_breaker
             THEN can_execute(bs[step.block_id], now)
             ELSE [ok |-> TRUE, cb |-> NewBreaker]
        input_data == put(resolve_inputs(step.inputs, ctx, EmptyDict),
                          <<"command">>, <<step.action>>)
        skipped == step.condition # <<>>
                      /\ ~evaluate_condition(step.condition, ctx)
        kind == IF skipped THEN "skipped"
                ELSE IF ~r.ok THEN "CircuitBreakerOpenError"
                ELSE IF step.block_id \notin agents THEN "AgentNotFoundError"
                ELSE "pending"
    IN  /\ pc = "loop"
        /\ i <= Len(workflow.steps)
        /\ breakers' = IF enable_circuit_breaker /\ ~skipped
                       THEN [bs EXCEPT ![step.block_id] = r.cb] ELSE breakers
        /\ invocations' =
             IF kind = "pending"
             THEN Append(invocations,
                         [step |-> i, block_id |-> step.block_id,
                          input_data |-> input_data,
                          timeout_seconds |-> timeout_seconds(step)])
             ELSE invocations
        /\ Resume(CASE kind = "skipped" -> next_step(workflow, i, ctx, Bus)
                    [] kind = "pending" -> invoke(workflow, i, ctx, Bus)
                    [] OTHER -> after_step(workflow, i, failure_result(kind),
                                           ctx, Bus))
        /\ ret' = Ret("begin_step", step.block_id,
                      BreakerOf(breakers, step.block_id).state, kind,
                      kind = "pending")
        /\ UNCHANGED <<now, agents, inflight, workflow, params, problems,
                       auxVars>>

\* the worker's payload: a dict holding output key y, or an empty one
Payload == [y \in {<<"y">>} |-> <<"X">>]

\* what the awaited agent.execute does: it returns a success result with the
\* payload or with an empty one, returns a failure result, raises, or does
\* not return within the step's timeout
StepOutcomes == {"success", "success_empty", "failure", "raise", "timeout"}

step_result(outcome) ==
    CASE outcome = "success" -> success_result(Payload)
      [] outcome = "success_empty" -> success_result(EmptyDict)
      [] outcome = "failure" -> failure_result("AgentError")
      [] outcome = "raise" -> failure_result("RuntimeError")
      [] OTHER -> failure_result("TimeoutError")

\* _execute_step recording nothing on the breaker when the deadline passed
record_result_in_time(cb, res, t) ==
    IF res.success THEN record_success(cb)
    ELSE IF res.error_type = "TimeoutError" THEN cb
    ELSE record_failure(cb, t)

\* lines 310-330: what _execute_step records on the worker's breaker for the
\* result res of the step: a success, or a failure for a failure result, a
\* TimeoutError of wait_for and any other exception
record_result(cb, res, t) ==
    IF res.success THEN record_success(cb) ELSE record_failure(cb, t)

\* The rest of the iteration, from the end of the await in _execute_step:
\* lines 307-330, then 181-230, and the completion after the last step
end_step(outcome) ==
    LET i == wf_context.current_step
        step == workflow.steps[i]
        res == step_result(outcome)
        bs == get_or_create(breakers, step.block_id)
        cb == bs[step.block_id]
    IN  /\ pc = "await"
        /\ ~res.success => cb.failure_count < MaxFailureCount
        /\ breakers' =
             IF ~enable_circuit_breaker THEN breakers
             ELSE [bs EXCEPT ![step.block_id] = record_result(cb, res, now)]
        /\ Resume(after_step(workflow, i, res, wf_context, Bus))
        /\ ret' = Ret("end_step", step.block_id, cb.state,
                      IF res.success THEN "ok" ELSE res.error_type, TRUE)
        /\ UNCHANGED <<now, agents, inflight, invocations, workflow, params,
                       problems, auxVars>>

(***************************************************************************)
(* BaseAgent._check_scope.  A path and a pattern are the sequences of      *)
(* their characters.                                                       *)
(***************************************************************************)
\* fnmatch(name, pat): "*" matches any run of characters, "?" any one
\* character, every other character itself
RECURSIVE fnmatch(_, _)
fnmatch(name, pat) ==
    IF pat = <<>> THEN name = <<>>
    ELSE IF Head(pat) = "*"
         THEN fnmatch(name, Tail(pat))
                 \/ (name # <<>> /\ fnmatch(Tail(name), pat))
    ELSE IF Head(pat) = "?"
         THEN name # <<>> /\ fnmatch(Tail(name), Tail(pat))
    ELSE name # <<>> /\ Head(name) = Head(pat)
            /\ fnmatch(Tail(name), Tail(pat))

\* file_path.replace("\\", "/")
normalize(path) ==
    [i \in 1 .. Len(path) |-> IF path[i] = "\\" THEN "/" ELSE path[i]]

\* some pattern of the list matches the path
matches_any(path, patterns) ==
    \E i \in 1 .. Len(patterns) : fnmatch(path, patterns[i])

\* _check_scope looking at the allowed patterns first
check_scope_allowed_first(path, allowed, forbidden) ==
    IF matches_any(normalize(path), allowed) THEN "True"
    ELSE "ScopeViolationError"

\* _check_scope: "True" when it returns, the error's name when it raises
check_scope(path, allowed, forbidden) ==
    IF matches_any(normalize(path), forbidden) THEN "ScopeViolationError"
    ELSE IF matches_any(normalize(path), allowed) THEN "True"
    ELSE "ScopeViolationError"

CheckScope ==
    /\ scope_ret = "pending"
    /\ scope_ret' = check_scope(file_path, allowed_paths, forbidden_paths)
    /\ UNCHANGED <<allowed_paths, forbidden_paths, file_path, orchVars,
                   busVars, docVars, runVars, parVars, waitVars,
                   registryVars, budgetVars>>

(***************************************************************************)
(* OrchestratorAgent.dispatch_parallel                                     *)
(***************************************************************************)
\* What a dispatch coroutine ended with: the AgentResult it returned or the
\* exception it raised, marked with the index of the task it was made for
Returned(task, success, error_type) ==
    [kind |-> "result", task |-> task, success |-> success,
     error_type |-> error_type]
Raised(task, error_type) ==
    [kind |-> "exception", task |-> task, success |-> FALSE,
     error_type |-> error_type]

\* asyncio.gather keeping the order in which the coroutines finished
gather_as_completed(done, n) == [i \in 1 .. n |-> done[i]]

\* asyncio.gather(*coroutines, return_exceptions=True): done lists what the
\* coroutines ended with, in the order they finished; the list gathered has
\* at i what coroutine i ended with
gather(done, n) ==
    [i \in 1 .. n |-> done[CHOOSE k \in 1 .. Len(done) : done[k].task = i]]

\* lines 520-527: an exception in the gathered list becomes a failure
\* result with the exception's type name
to_result(r) ==
    IF r.kind = "result" THEN r
    ELSE [r EXCEPT !.kind = "result", !.success = FALSE]

\* dispatch_parallel(tasks) is called: the coroutines are made and gathered
dispatch_parallel ==
    /\ par_pc = "idle"
    /\ par_pc' = "running"
    /\ ret' = Ret("dispatch_parallel", None, None, None, FALSE)
    /\ UNCHANGED <<now, breakers, agents, inflight, par_tasks, par_started,
                   par_pending, par_done, par_ret, busVars, docVars, runVars,
                   scopeVars, waitVars,
                       registryVars, budgetVars>>

\* The next coroutine starts: dispatch for task par_started + 1 runs to the
\* await of agent.execute, or to its return when a check fails, or is left
\* by an exception of the worker's get_capabilities (raises)
par_start(raises) ==
    LET i == par_started + 1
        task == par_tasks[i]
        bs == IF enable_circuit_breaker
              THEN get_or_create(breakers, task.target_block) ELSE breakers
        r == IF enable_circuit_breaker
             THEN can_execute(bs[task.target_block], now)
             ELSE [ok |-> TRUE, cb |-> NewBreaker]
        registered == task.target_block \in agents
        kind == route(r.ok, registered,
                      task.command \in get_capabilities(task.target_block))
    IN  /\ par_pc = "running"
        /\ i <= Len(par_tasks)
        /\ raises => r.ok /\ registered
        /\ par_started' = i
        /\ breakers' = IF enable_circuit_breaker
                       THEN [bs EXCEPT ![task.target_block] = r.cb]
                       ELSE breakers
        /\ IF raises
           THEN /\ par_done' = Append(par_done, Raised(i, "RuntimeError"))
                /\ UNCHANGED par_pending
           ELSE IF kind = "pending"
           THEN /\ par_pending' = par_pending \cup {i}
                /\ UNCHANGED par_done
           ELSE /\ par_done' = Append(par_done, Returned(i, FALSE, kind))
                /\ UNCHANGED par_pending
        /\ ret' = Ret("par_start", task.target_block,
                      BreakerOf(breakers, task.target_block).state,
                      IF raises THEN "raise" ELSE kind,
                      ~raises /\ kind = "pending")
        /\ UNCHANGED <<now, agents, inflight, par_tasks, par_pc, par_ret,
                       busVars, docVars, runVars, scopeVars, waitVars,
                       registryVars, budgetVars>>

\* the awaited agent.execute of task i ends and its dispatch returns
par_finish(i, outcome) ==
    LET task == par_tasks[i]
        bs == get_or_create(breakers, task.target_block)
        cb == bs[task.target_block]
    IN  /\ par_pc = "running"
        /\ i \in par_pending
        /\ outcome # "success" => cb.failure_count < MaxFailureCount
        /\ par_pending' = par_pending \ {i}
        /\ breakers' =
             IF ~enable_circuit_breaker THEN breakers
             ELSE IF outcome = "success"
                  THEN [bs EXCEPT ![task.target_block] = record_success(cb)]
                  ELSE [bs EXCEPT ![task.target_block] =
                                      record_failure(cb, now)]
        /\ par_done' =
             Append(par_done,
                    CASE outcome = "success" -> Returned(i, TRUE, None)
                      [] outcome = "failure" -> Returned(i, FALSE, "AgentError")
                      [] OTHER -> Returned(i, FALSE, "RuntimeError"))
        /\ ret' = Ret("par_finish", task.target_block, cb.state, outcome, TRUE)
        /\ UNCHANGED <<now, agents, inflight, par_tasks, par_pc, par_started,
                       par_ret, busVars, docVars, runVars, scopeVars, waitVars,
                       registryVars, budgetVars>>

\* every coroutine has ended: gather returns and dispatch_parallel returns
\* the list of results
par_return ==
    LET n == Len(par_tasks)
        results == gather(par_done, n)
    IN  /\ par_pc = "running"
        /\ par_started = n /\ par_pending = {}
        /\ par_ret' = [i \in 1 .. n |-> to_result(results[i])]
        /\ par_pc' = "returned"
        /\ ret' = Ret("par_return", None, None, None, FALSE)
        /\ UNCHANGED <<now, breakers, agents, inflight, par_tasks,
                       par_started, par_pending, par_done, busVars, docVars,
                       runVars, scopeVars, waitVars,
                       registryVars, budgetVars>>

(***************************************************************************)
(* EventBus.publish_and_wait, request and respond.  An event of these      *)
(* operations carries the record of its correlation_id and its data.       *)
(***************************************************************************)
Correlated(k, data) == [correlation_id |-> k, data |-> data]

\* response_event_type, line 258 and line 308
response_type(k) == "response." \o k

\* future.set_result(data) under "if not future.done()"
set_result(fs, c, data) ==
    IF fs[c].state = "pending"
    THEN [fs EXCEPT ![c] = [state |-> "done", result |-> data]]
    ELSE fs

\* lines 176-180 of publish: the future registered for the event's
\* correlation id, if there is one, gets the event's data
resolve(fs, pending, k, data) ==
    IF k \in DOMAIN pending THEN set_result(fs, pending[k], data) ELSE fs

\* _pending_responses.pop(k, None)
pop(pending, k) == [x \in DOMAIN pending \ {k} |-> pending[x]]

\* _pending_responses[k] = the future of caller c
register_future(pending, k, c) ==
    [x \in DOMAIN pending \cup {k} |-> IF x = k THEN c ELSE pending[x]]

\* request leaving its response_handler subscribed
unsubscribe_skipped(handlers, c) == handlers

\* EventBus.unsubscribe(response_event_type, response_handler): the handler
\* list it leaves
unsubscribe(handlers, c) == remove(handlers, c)

\* the tasks publish creates for the handlers subscribed to response.<k>
response_calls(handlers, data) ==
    [i \in 1 .. Len(handlers) |-> [handler |-> handlers[i], data |-> data]]

\* publish_and_wait(event, timeout) from its call to the await of wait_for:
\* lines 209-222.  The future is registered under the event's correlation id
\* and the event is published.
publish_and_wait(c, k, data) ==
    LET fs == [futures EXCEPT ![c] = [state |-> "pending", result |-> None]]
        pending == register_future(pending_responses, k, c)
    IN  /\ waits[c].pc = "idle"
        /\ Len(audience) < MaxPublished
        /\ pending_responses' = pending
        /\ Published(publish(Bus, "test.event", Correlated(k, data)))
        /\ futures' = resolve(fs, pending, k, data)
        /\ waits' = [waits EXCEPT ![c] =
                        [op |-> "publish_and_wait", pc |-> "waiting",
                         correlation_id |-> k,
                         event_id |-> Len(audience) + 1, ret |-> None]]
        /\ UNCHANGED <<response_handlers, response_tasks, scopeVars, parVars, registryVars, budgetVars,
                       orchVars, docVars, runVars>>

\* publish_and_wait from the end of wait_for to its return: lines 222-229.
\* wait_for returns the result of the future, or cancels it at the timeout
\* and None is returned; the finally clause pops the correlation id.
publish_and_wait_return(c) ==
    LET k == waits[c].correlation_id
    IN  /\ waits[c].op = "publish_and_wait" /\ waits[c].pc = "waiting"
        /\ IF futures[c].state = "done"
           THEN /\ waits' = [waits EXCEPT ![c].pc = "returned",
                                          ![c].ret = futures[c].result]
                /\ UNCHANGED futures
           ELSE /\ waits' = [waits EXCEPT ![c].pc = "returned",
                                          ![c].ret = None]
                /\ futures' = [futures EXCEPT ![c].state = "cancelled"]
        /\ pending_responses' = pop(pending_responses, k)
        /\ UNCHANGED <<response_handlers, response_tasks, scopeVars, parVars, registryVars, budgetVars,
                       orchVars, busVars, docVars, runVars>>

\* publish of an event that carries correlation id k, by any component
publish_correlated(k, data) ==
    /\ Len(audience) < MaxPublished
    /\ Published(publish(Bus, "other.event", Correlated(k, data)))
    /\ futures' = resolve(futures, pending_responses, k, data)
    /\ UNCHANGED <<pending_responses, waits, response_handlers,
                   response_tasks, scopeVars, parVars, registryVars, budgetVars, orchVars, docVars,
                   runVars>>

\* request(target_block, action, data, timeout, correlation_id) from its call
\* to the await of wait_for: lines 257-279.  The response handler is
\* subscribed and the request event is published.
request(c, k, data) ==
    LET fs == [futures EXCEPT ![c] = [state |-> "pending", result |-> None]]
    IN  /\ waits[c].pc = "idle"
        /\ Len(audience) < MaxPublished
        /\ response_handlers' = [response_handlers EXCEPT ![k] = Append(@, c)]
        /\ Published(publish(Bus, "request.S.save", Correlated(k, data)))
        /\ futures' = resolve(fs, pending_responses, k, data)
        /\ waits' = [waits EXCEPT ![c] =
                        [op |-> "request", pc |-> "waiting",
                         correlation_id |-> k,
                         event_id |-> Len(audience) + 1, ret |-> None]]
        /\ UNCHANGED <<pending_responses, response_tasks, scopeVars, parVars, registryVars, budgetVars,
                       orchVars, docVars, runVars>>

\* respond(original_event, response_data, source_block) for an event whose
\* correlation id is k: lines 302-313 and publish
respond(k, data) ==
    /\ Len(audience) < MaxPublished
    /\ Published(publish(Bus, response_type(k), Correlated(k, data)))
    /\ response_tasks' =
          response_tasks \o response_calls(response_handlers[k], data)
    /\ futures' = resolve(futures, pending_responses, k, data)
    /\ UNCHANGED <<pending_responses, waits, response_handlers, scopeVars,
                   parVars, registryVars, budgetVars, orchVars, docVars, runVars>>

\* the event loop runs the oldest task of a response handler: _safe_call
\* calls response_handler, lines 263-265
response_handler ==
    /\ response_tasks # <<>>
    /\ futures' = set_result(futures, Head(response_tasks).handler,
                             Head(response_tasks).data)
    /\ response_tasks' = Tail(response_tasks)
    /\ UNCHANGED <<pending_responses, waits, response_handlers, scopeVars,
                   parVars, registryVars, budgetVars, orchVars, busVars, docVars, runVars>>

\* a task of the response handler of caller c is waiting to be run
Scheduled(c) ==
    \E i \in 1 .. Len(response_tasks) : response_tasks[i].handler = c

\* request from the end of wait_for to its end: lines 279-287.  wait_for
\* returns the result of the future; at the timeout, which the event loop
\* handles after the tasks that were ready before it, wait_for cancels the
\* future and TimeoutError is raised; the finally clause unsubscribes the
\* handler.
request_return(c) ==
    LET k == waits[c].correlation_id
    IN  /\ waits[c].op = "request" /\ waits[c].pc = "waiting"
        /\ IF futures[c].state = "done"
           THEN /\ waits' = [waits EXCEPT ![c].pc = "returned",
                                          ![c].ret = futures[c].result]
                /\ UNCHANGED futures
           ELSE /\ ~Scheduled(c)
                /\ waits' = [waits EXCEPT ![c].pc = "raised",
                                          ![c].ret = "TimeoutError"]
                /\ futures' = [futures EXCEPT ![c].state = "cancelled"]
        /\ response_handlers' =
              [response_handlers EXCEPT ![k] = unsubscribe(@, c)]
        /\ UNCHANGED <<pending_responses, response_tasks, scopeVars, parVars, registryVars, budgetVars,
                       orchVars, busVars, docVars, runVars>>

(***************************************************************************)
(* BaseAgent: the token budget of one worker, whose execute is invoked     *)
(* by several callers.  An invocation is suspended at the awaits between   *)
(* its pre_execute and its calls of _track_tokens, where another           *)
(* invocation of the worker may run.                                       *)
(***************************************************************************)
\* pre_execute, lines 291-308: _reset_tokens sets the worker's counter to 0
pre_execute(c) ==
    /\ executions[c].pc # "running"
    /\ tokens_used' = 0
    /\ executions' = [executions EXCEPT ![c] = [pc |-> "running", added |-> 0]]
    /\ UNCHANGED <<orchVars, busVars, docVars, runVars, scopeVars, parVars,
                   waitVars, registryVars>>

\* _track_tokens(tokens), lines 223-241, called by invocation c: the units
\* are added to the worker's counter, and TokenLimitExceededError is raised
\* when the counter is above the limit; execute turns the exception into a
\* failure result of that error_type
track_tokens(c, tokens) ==
    /\ executions[c].pc = "running"
    /\ tokens_used + tokens <= MaxTokens
    /\ executions[c].added + tokens <= MaxTokens
    /\ tokens_used' = tokens_used + tokens
    /\ executions' =
          [executions EXCEPT ![c] =
              [pc |-> IF tokens_used + tokens > token_limit
                      THEN "TokenLimitExceededError" ELSE "running",
               added |-> @.added + tokens]]
    /\ UNCHANGED <<orchVars, busVars, docVars, runVars, scopeVars, parVars,
                   waitVars, registryVars>>

\* post_execute, lines 321-340: the invocation returns its result
post_execute(c) ==
    /\ executions[c].pc = "running"
    /\ executions' = [executions EXCEPT ![c].pc = "returned"]
    /\ UNCHANGED <<tokens_used, orchVars, busVars, docVars, runVars,
                   scopeVars, parVars, waitVars, registryVars>>

(***************************************************************************)
(* Spec: the circuit breakers of a CircuitBreakerRegistry under any        *)
(* sequence of calls of their operations, as time passes.                  *)
(***************************************************************************)
Next ==
    \/ Tick
    \/ \E w \in Workers : CanExecute(w)
    \/ \E w \in Workers : RecordSuccess(w)
    \/ \E w \in Workers : RecordFailure(w)
    \/ \E w \in Workers : Reset(w)
    \/ \E w \in Workers : ForceOpen(w)

Spec == Init /\ [][Next]_vars

(***************************************************************************)
(* SpecReset: the breakers of Spec, with the registry's reset_all.         *)
(***************************************************************************)
NextReset ==
    \/ Next
    \/ ResetAll

SpecReset == Init /\ [][NextReset]_vars

(***************************************************************************)
(* SpecDispatch: the orchestrator's dispatch over a registry in which the  *)
(* workers of Registrable come and go; the other ids are never registered. *)
(* An operator may reset or force open any breaker.                        *)
(***************************************************************************)
Registrable == {"P"}

NextDispatch ==
    \/ Tick
    \/ \E w \in Workers : Reset(w)
    \/ \E w \in Workers : ForceOpen(w)
    \/ \E w \in Registrable : register(w)
    \/ \E w \in Registrable : unregister(w)
    \/ \E c \in Commands, w \in Workers : dispatch(c, w)
    \/ \E w \in Workers, o \in Outcomes : dispatch_return(w, o)

SpecDispatch == Init /\ [][NextDispatch]_vars

(***************************************************************************)
(* SpecBus: handlers subscribe, events are published and                   *)
(* the event loop runs the handler tasks in any order.                     *)
(***************************************************************************)
NextBus ==
    \/ \E t \in EventTypes, h \in Handlers : subscribe(t, h)
    \/ \E h \in Handlers : subscribe_all(h)
    \/ \E t \in EventTypes : Publish(t)
    \/ \E e \in EventIds, h \in Handlers, raises \in BOOLEAN :
            safe_call(e, h, raises)

SpecBus == Init /\ [][NextBus]_vars

(***************************************************************************)
(* SpecValidate: validate is called on a parsed workflow of at most        *)
(* MaxSteps steps.                                                         *)
(***************************************************************************)
\* the input values of the documents: a literal, references to steps and a
\* reference to a parameter
InputValues ==
    {<<"literal">>, Reference(StepId(1), <<"y">>),
     Reference(StepId(2), <<"y">>), Reference(<<"params">>, <<"k">>)}

\* the steps of the documents: a well-formed step with no input or one
\* input, and steps with one field wrong
ValidateSteps ==
    LET Ids == {StepId(1), StepId(2)}
        step(id, block_id, action, inputs, on_failure) ==
            WorkflowStep(id, block_id, action, inputs, <<<<"y">>>>,
                         on_failure, <<>>)
    IN  {step(id, "P", "parse", <<>>, "abort") : id \in Ids}
        \cup {step(id, "P", "parse", <<<<<<"title">>, v>>>>, "skip") :
                 id \in Ids, v \in InputValues}
        \cup {step(id, "", "parse", <<>>, "abort") : id \in Ids}
        \cup {step(id, "P", "", <<>>, "abort") : id \in Ids}
        \cup {step(id, "P", "parse", <<>>, "retry") : id \in Ids}

ValidateDocs ==
    {Workflow(steps) :
        steps \in UNION {[1 .. n -> ValidateSteps] : n \in 0 .. MaxSteps}}

InitValidate ==
    /\ now = 0
    /\ breakers = [w \in {} |-> NewBreaker]
    /\ agents = {}
    /\ inflight = [w \in Workers |-> 0]
    /\ ret = Ret("init", None, None, None, FALSE)
    /\ InitBus
    /\ workflow \in ValidateDocs
    /\ params = EmptyDict
    /\ InitRun
    /\ InitScope

NextValidate == Validate

SpecValidate == InitValidate /\ [][NextValidate]_vars

(***************************************************************************)
(* SpecWorkflow: one execute_workflow on an orchestrator whose registry    *)
(* holds worker P and not worker S.  The breaker of P is new or has been   *)
(* forced open; the document has at most MaxSteps steps, step i having the *)
(* id StepId(i); the caller passes no params or one whose key is           *)
(* "step1.y".                                                              *)
(***************************************************************************)
\* a step with the input title: ${step<ref>.y}
RunStep(on_failure, ref, conditional, declares, block_id) ==
    WorkflowStep(<<>>, block_id, "parse",
                 <<<<<<"title">>, Reference(StepId(ref), <<"y">>)>>>>,
                 IF declares THEN <<<<"y">>>> ELSE <<>>,
                 on_failure,
                 IF conditional THEN Reference(StepId(1), <<"y">>) ELSE <<>>)

RunSteps ==
    {RunStep(f, 1, FALSE, TRUE, "P") : f \in valid_failures}
    \cup {RunStep("skip", 2, FALSE, TRUE, "P"),
          RunStep("skip", 1, TRUE, TRUE, "P"),
          RunStep("continue", 1, FALSE, FALSE, "P"),
          RunStep("continue", 1, FALSE, TRUE, "S")}

RunDocs ==
    {Workflow([i \in 1 .. Len(steps) |-> [steps[i] EXCEPT !.id = StepId(i)]]) :
        steps \in UNION {[1 .. n -> RunSteps] : n \in 0 .. MaxSteps}}

RunParams ==
    {EmptyDict, [k \in {Key(StepId(1), <<"y">>)} |-> <<"Z">>]}

InitWorkflow ==
    /\ now = 0
    /\ breakers \in {[w \in {} |-> NewBreaker],
                     [w \in {"P"} |-> force_open(NewBreaker, 0)]}
    /\ agents = {"P"}
    /\ inflight = [w \in Workers |-> 0]
    /\ ret = Ret("init", None, None, None, FALSE)
    /\ InitBus
    /\ workflow \in RunDocs
    /\ params \in RunParams
    /\ InitRun
    /\ InitScope

NextWorkflow ==
    \/ \E load \in Loads : execute_workflow(load)
    \/ begin_step
    \/ \E outcome \in StepOutcomes : end_step(outcome)

SpecWorkflow == InitWorkflow /\ [][NextWorkflow]_vars

(***************************************************************************)
(* SpecScope: _check_scope is called with a path of at most MaxPathLen     *)
(* characters on a worker whose rules hold at most MaxPatterns allowed     *)
(* and MaxPatterns forbidden patterns.                                     *)
(***************************************************************************)
PathChars == {"a", "b", "/", "\\"}

Paths == UNION {[1 .. n -> PathChars] : n \in 0 .. MaxPathLen}

\* the patterns of the rules: a/*, *b and ?/a
Patterns == {<<"a", "/", "*">>, <<"*", "b">>, <<"?", "/", "a">>}

PatternLists == UNION {[1 .. n -> Patterns] : n \in 0 .. MaxPatterns}

InitCheckScope ==
    /\ now = 0
    /\ breakers = [w \in {} |-> NewBreaker]
    /\ agents = {}
    /\ inflight = [w \in Workers |-> 0]
    /\ ret = Ret("init", None, None, None, FALSE)
    /\ InitBus
    /\ workflow = Workflow(<<>>)
    /\ params = EmptyDict
    /\ InitRun
    /\ allowed_paths \in PatternLists
    /\ forbidden_paths \in PatternLists
    /\ file_path \in Paths
    /\ scope_ret = "pending"
    /\ par_tasks = <<>> /\ par_pc = "idle" /\ par_started = 0
    /\ par_pending = {} /\ par_done = <<>> /\ par_ret = <<>>
    /\ InitRegistry
    /\ InitBudget
    /\ InitWait

NextScope == CheckScope

SpecScope == InitCheckScope /\ [][NextScope]_vars

(***************************************************************************)
(* SpecHooks: one execute_workflow on a document with hooks.  The steps    *)
(* have no inputs and go to the registered worker P; each hook list is     *)
(* empty, a notify hook, or a notify hook followed by a log hook whose     *)
(* template is a number; one document logs a string on every occasion.     *)
(***************************************************************************)
HookLists ==
    {<<>>, <<Hook("notify", "str")>>,
     <<Hook("notify", "str"), Hook("log", "int")>>}

HookSets ==
    [on_start : HookLists, on_complete : HookLists, on_error : HookLists]
    \cup {[on_start |-> <<Hook("log", "str")>>,
           on_complete |-> <<Hook("log", "str")>>,
           on_error |-> <<Hook("log", "str")>>]}

HookSteps ==
    {WorkflowStep(<<>>, "P", "parse", <<>>, <<<<"y">>>>, f, <<>>) :
        f \in {"abort", "rollback", "continue"}}

HookDocs ==
    {[steps |-> [i \in 1 .. Len(steps) |->
                    [steps[i] EXCEPT !.id = StepId(i)]],
      hooks |-> hooks] :
        steps \in UNION {[1 .. n -> HookSteps] : n \in 0 .. MaxSteps},
        hooks \in HookSets}

InitHooks ==
    /\ now = 0
    /\ breakers = [w \in {} |-> NewBreaker]
    /\ agents = {"P"}
    /\ inflight = [w \in Workers |-> 0]
    /\ ret = Ret("init", None, None, None, FALSE)
    /\ InitBus
    /\ workflow \in HookDocs
    /\ params = EmptyDict
    /\ InitRun
    /\ InitScope

SpecHooks == InitHooks /\ [][NextWorkflow]_vars

(***************************************************************************)
(* SpecParallel: one dispatch_parallel of at most MaxTasks tasks on an     *)
(* orchestrator whose registry holds worker P and not worker S.            *)
(***************************************************************************)
Tasks == [command : Commands, target_block : Workers]

TaskLists == UNION {[1 .. n -> Tasks] : n \in 0 .. MaxTasks}

InitParallel ==
    /\ now = 0
    /\ breakers = [w \in {} |-> NewBreaker]
    /\ agents = {"P"}
    /\ inflight = [w \in Workers |-> 0]
    /\ ret = Ret("init", None, None, None, FALSE)
    /\ InitBus
    /\ workflow = Workflow(<<>>)
    /\ params = EmptyDict
    /\ InitRun
    /\ allowed_paths = <<>> /\ forbidden_paths = <<>>
    /\ file_path = <<>> /\ scope_ret = "pending"
    /\ par_tasks \in TaskLists
    /\ par_pc = "idle" /\ par_started = 0 /\ par_pending = {}
    /\ par_done = <<>> /\ par_ret = <<>>
    /\ InitRegistry
    /\ InitBudget
    /\ InitWait

NextParallel ==
    \/ dispatch_parallel
    \/ \E raises \in BOOLEAN : par_start(raises)
    \/ \E i \in 1 .. Len(par_tasks), o \in Outcomes : par_finish(i, o)
    \/ par_return

SpecParallel == InitParallel /\ [][NextParallel]_vars

(***************************************************************************)
(* SpecSteps: one execute_workflow on a document whose steps go to the     *)
(* registered worker P, which declares the capability parse.  The steps    *)
(* are: a step named params, a step with the input ${params.k}, a step     *)
(* whose action is save, a step with the condition ${scan.files}, all      *)
(* marked parallel, and two plain steps with a timeout and on_failure      *)
(* abort and rollback.  The caller's params hold k and                     *)
(* a collection under scan.files, or nothing.                              *)
(***************************************************************************)
Parallel(step) == [step EXCEPT !.parallel = TRUE]
Timeout(step, t) == [step EXCEPT !.timeout = t]

StepShapes ==
    {Parallel(WorkflowStep(<<"params">>, "P", "parse", <<>>, <<<<"y">>>>,
                           "continue", <<>>)),
     Parallel(WorkflowStep(<<>>, "P", "parse",
                           <<<<<<"title">>, Reference(<<"params">>, <<"k">>)>>>>,
                           <<<<"y">>>>, "continue", <<>>)),
     Parallel(WorkflowStep(<<>>, "P", "save", <<>>, <<<<"y">>>>,
                           "continue", <<>>)),
     Parallel(WorkflowStep(<<>>, "P", "parse", <<>>, <<<<"y">>>>, "continue",
                           Reference(<<"scan">>, <<"files">>))),
     Timeout(WorkflowStep(<<>>, "P", "parse", <<>>, <<<<"y">>>>, "abort",
                          <<>>), 1),
     Timeout(WorkflowStep(<<>>, "P", "parse", <<>>, <<<<"y">>>>, "rollback",
                          <<>>), 2)}

StepDocs ==
    {Workflow([i \in 1 .. Len(steps) |->
                  IF steps[i].id = <<>>
                  THEN [steps[i] EXCEPT !.id = StepId(i)] ELSE steps[i]]) :
        steps \in UNION {[1 .. n -> StepShapes] : n \in 0 .. MaxSteps}}

StepParams ==
    LET k == <<"k">>
        files == Key(<<"scan">>, <<"files">>)
        both(v) == [x \in {k, files} |-> IF x = k THEN <<"Z">> ELSE v]
    IN  {EmptyDict, both(ListOf(<<>>)), both(ListOf(<<"X">>)),
         both(DictOf(<<>>))}

InitSteps ==
    /\ now = 0
    /\ breakers = [w \in {} |-> NewBreaker]
    /\ agents = {"P"}
    /\ inflight = [w \in Workers |-> 0]
    /\ ret = Ret("init", None, None, None, FALSE)
    /\ InitBus
    /\ workflow \in StepDocs
    /\ params \in StepParams
    /\ InitRun
    /\ InitScope

SpecSteps == InitSteps /\ [][NextWorkflow]_vars

(***************************************************************************)
(* LiveSteps: the runs of SpecSteps under the scheduling of the event      *)
(* loop: a loop that can go on to its next step does so, and the deadline  *)
(* that wait_for sets for an awaited worker passes.  Nothing is assumed    *)
(* of the worker: it need not return or raise.                             *)
(***************************************************************************)
LiveSteps ==
    /\ SpecSteps
    /\ WF_vars(begin_step)
    /\ WF_vars(end_step("timeout"))

(***************************************************************************)
(* SpecWait: callers call publish_and_wait and request on one bus while    *)
(* events with correlation ids and responses are published.                *)
(***************************************************************************)
NextWait ==
    \/ \E c \in Callers, k \in CorrelationIds, data \in Datas :
          publish_and_wait(c, k, data)
    \/ \E c \in Callers : publish_and_wait_return(c)
    \/ \E k \in CorrelationIds, data \in Datas : publish_correlated(k, data)
    \/ \E c \in Callers, k \in CorrelationIds, data \in Datas :
          request(c, k, data)
    \/ \E k \in CorrelationIds, data \in Datas : respond(k, data)
    \/ response_handler
    \/ \E c \in Callers : request_return(c)

SpecWait == Init /\ [][NextWait]_vars

(***************************************************************************)
(* SpecRegistry: workers P, S and R, and Q, which declares the             *)
(* capabilities of all, are registered and unregistered, and the registry  *)
(* is cleared.                                                             *)
(***************************************************************************)
RegistryWorkers == {"P", "S", "Q", "R"}

NextRegistry ==
    \/ \E w \in RegistryWorkers : register(w)
    \/ \E w \in RegistryWorkers : unregister(w)
    \/ clear

SpecRegistry == Init /\ [][NextRegistry]_vars

(***************************************************************************)
(* SpecPolicy: one execute_workflow on a document with hooks whose steps   *)
(* go to the registered worker P with on_failure skip, continue or abort;  *)
(* a step may carry the condition ${step1.y}.  The breaker of P is new or  *)
(* has been forced open.                                                   *)
(***************************************************************************)
PolicyStep(on_failure, conditional) ==
    WorkflowStep(<<>>, "P", "parse", <<>>, <<<<"y">>>>, on_failure,
                 IF conditional THEN Reference(StepId(1), <<"y">>) ELSE <<>>)

PolicySteps ==
    {PolicyStep("skip", FALSE), PolicyStep("continue", FALSE),
     PolicyStep("continue", TRUE), PolicyStep("abort", FALSE)}

PolicyDocs ==
    {[steps |-> [i \in 1 .. Len(steps) |->
                    [steps[i] EXCEPT !.id = StepId(i)]],
      hooks |-> hooks] :
        steps \in UNION {[1 .. n -> PolicySteps] : n \in 0 .. MaxSteps},
        hooks \in HookSets}

InitPolicy ==
    /\ now = 0
    /\ breakers \in {[w \in {} |-> NewBreaker],
                     [w \in {"P"} |-> force_open(NewBreaker, 0)]}
    /\ agents = {"P"}
    /\ inflight = [w \in Workers |-> 0]
    /\ ret = Ret("init", None, None, None, FALSE)
    /\ InitBus
    /\ workflow \in PolicyDocs
    /\ params = EmptyDict
    /\ InitRun
    /\ InitScope

SpecPolicy == InitPolicy /\ [][NextWorkflow]_vars

(***************************************************************************)
(* SpecBudget: the invocations of one worker's execute, one after another  *)
(* and overlapping, each passing unit counts to _track_tokens.             *)
(***************************************************************************)
NextBudget ==
    \/ \E c \in Executions : pre_execute(c)
    \/ \E c \in Executions, tokens \in Units : track_tokens(c, tokens)
    \/ \E c \in Executions : post_execute(c)

SpecBudget == Init /\ [][NextBudget]_vars

(***************************************************************************)
(* Claims about the circuit breaker (checked under Spec)                   *)
(***************************************************************************)
\* more than recovery_timeout has passed at time t since the stamp of cb
TimeoutElapsed(cb, t) ==
    cb.last_failure_time # NoTime /\ t - cb.last_failure_time > recovery_timeout

\* the step just taken was operation op on the breaker of worker w
Did(op, w) == ret'.op = op /\ ret'.target = w

Pre(w) == BreakerOf(breakers, w)
Post(w) == breakers'[w]

\* C1: in closed, each record_failure adds one to the failure count and the
\* call that brings the count to failure_threshold opens the breaker; while
\* the breaker is open and no more than recovery_timeout has passed since
\* last_failure_time, can_execute returns false and changes nothing, and only
\* a manual reset takes the breaker out of open.
C1_Step(w) ==
    /\ (Did("record_failure", w) /\ Pre(w).state = "closed") =>
          /\ Post(w).failure_count = Pre(w).failure_count + 1
          /\ Post(w).state =
                IF Post(w).failure_count >= failure_threshold
                THEN "open" ELSE "closed"
    /\ (Pre(w).state = "open" /\ ~TimeoutElapsed(Pre(w), now)) =>
          /\ Did("can_execute", w) =>
                ret'.kind = "false" /\ Post(w) = Pre(w)
          /\ (w \in DOMAIN breakers' /\ Post(w).state # "open") =>
                Did("reset", w)

C1_OpensAndBlocks == [][\A w \in Workers : C1_Step(w)]_vars

\* C1 witness: failures have opened the breaker and can_execute was refused.
C1_Witness ==
    /\ ret.op = "can_execute" /\ ret.kind = "false"
    /\ breakers[ret.target].state = "open"
    /\ breakers[ret.target].failure_count = failure_threshold

\* C2: on an open breaker a can_execute made when more than
\* recovery_timeout has passed since last_failure_time returns true and
\* leaves the breaker half_open; the breaker goes from open to half_open in
\* no other way; in half_open can_execute returns true and changes nothing.
C2_Step(w) ==
    /\ (Did("can_execute", w) /\ Pre(w).state = "open"
            /\ TimeoutElapsed(Pre(w), now)) =>
          ret'.kind = "true" /\ Post(w).state = "half_open"
    /\ (w \in DOMAIN breakers' /\ Pre(w).state = "open"
            /\ Post(w).state = "half_open") =>
          Did("can_execute", w) /\ TimeoutElapsed(Pre(w), now)
    /\ (Did("can_execute", w) /\ Pre(w).state = "half_open") =>
          ret'.kind = "true" /\ Post(w) = Pre(w)

C2_HalfOpenByProbe == [][\A w \in Workers : C2_Step(w)]_vars

\* C2 witness: a can_execute has just moved an open breaker to half_open.
C2_Witness ==
    /\ ret.op = "can_execute" /\ ret.before = "open" /\ ret.kind = "true"
    /\ breakers[ret.target].state = "half_open"

\* C3: a record_failure on a half_open breaker leaves it open, whatever its
\* counts, stamped with the time of that failure, and can_execute on the
\* breaker it leaves is false at every time up to recovery_timeout later.
C3_Step(w) ==
    (Did("record_failure", w) /\ Pre(w).state = "half_open") =>
        /\ Post(w).state = "open"
        /\ Post(w).last_failure_time = now
        /\ \A t \in now .. now + recovery_timeout :
              ~can_execute(Post(w), t).ok
        /\ can_execute(Post(w), now + recovery_timeout + 1).ok

C3_HalfOpenFailureReopens == [][\A w \in Workers : C3_Step(w)]_vars

\* C3 witness: a failure below the failure threshold has reopened a
\* half_open breaker.
C3_Witness ==
    /\ ret.op = "record_failure" /\ ret.before = "half_open"
    /\ breakers[ret.target].state = "open"
    /\ breakers[ret.target].failure_count < failure_threshold

\* C4: success_count is zero on entering half_open and changes in half_open
\* only by one per record_success; the record_success that brings it to
\* success_threshold closes the breaker with both counts zero, and an earlier
\* one leaves it half_open.
C4_Step(w) ==
    /\ (w \in DOMAIN breakers' /\ Pre(w).state # "half_open"
            /\ Post(w).state = "half_open") => Post(w).success_count = 0
    /\ (w \in DOMAIN breakers' /\ Pre(w).state = "half_open"
            /\ Post(w).state = "half_open" /\ ~Did("record_success", w)) =>
          Post(w).success_count = Pre(w).success_count
    /\ (Did("record_success", w) /\ Pre(w).state = "half_open") =>
          IF Pre(w).success_count + 1 >= success_threshold
          THEN /\ Post(w).state = "closed"
               /\ Post(w).failure_count = 0
               /\ Post(w).success_count = 0
          ELSE /\ Post(w).state = "half_open"
               /\ Post(w).success_count = Pre(w).success_count + 1
    /\ Pre(w).state = "half_open" => Pre(w).success_count < success_threshold

C4_HalfOpenCloses == [][\A w \in Workers : C4_Step(w)]_vars

\* C4 witness: a success has just closed a half_open breaker that had
\* failures on its count.
C4_Witness ==
    /\ ret.op = "record_success" /\ ret.before = "half_open"
    /\ breakers[ret.target].state = "closed"
    /\ breakers[ret.target].failure_count = 0
    /\ breakers[ret.target].success_count = 0
    /\ breakers[ret.target].last_failure_time # NoTime

(***************************************************************************)
(* Claims about dispatch (checked under SpecDispatch)                      *)
(***************************************************************************)
\* C5: a dispatch to a worker whose breaker is open, with no more than
\* recovery_timeout passed since last_failure_time, returns a
\* CircuitBreakerOpenError failure, does not invoke the worker and leaves
\* every breaker as it was.
C5_Step(w) ==
    (Did("dispatch", w) /\ Pre(w).state = "open"
        /\ ~TimeoutElapsed(Pre(w), now)) =>
        /\ ret'.kind = "CircuitBreakerOpenError"
        /\ ~ret'.invoked
        /\ inflight' = inflight
        /\ breakers' = breakers

C5_OpenBreakerRejects == [][\A w \in Workers : C5_Step(w)]_vars

\* C5 witness: a dispatch to a registered worker was rejected by its open
\* breaker.
C5_Witness ==
    /\ ret.op = "dispatch" /\ ret.kind = "CircuitBreakerOpenError"
    /\ ret.target \in agents
    /\ breakers[ret.target].state = "open"

\* C6 as stated: a dispatch to an id that is not registered returns an
\* AgentNotFoundError failure in every state of that id's breaker.
C6_AlwaysAgentNotFound ==
    (ret.op = "dispatch" /\ ret.target \notin agents) =>
        ret.kind = "AgentNotFoundError"

\* C6 amended: a dispatch to an id that is not registered never invokes a
\* worker; it returns a CircuitBreakerOpenError failure when that id's
\* breaker is open with no more than recovery_timeout passed since
\* last_failure_time, and an AgentNotFoundError failure otherwise.
C6_Step(w) ==
    (Did("dispatch", w) /\ w \notin agents) =>
        /\ ~ret'.invoked
        /\ inflight' = inflight
        /\ ret'.kind =
             IF Pre(w).state = "open" /\ ~TimeoutElapsed(Pre(w), now)
             THEN "CircuitBreakerOpenError" ELSE "AgentNotFoundError"

C6_UnregisteredFails == [][\A w \in Workers : C6_Step(w)]_vars

\* C6 witness: a dispatch to an unregistered id returned AgentNotFoundError
\* after its breaker, open long enough, let the call through.
C6_Witness ==
    /\ ret.op = "dispatch" /\ ret.kind = "AgentNotFoundError"
    /\ ret.target \notin agents
    /\ ret.before = "open"

\* C25: a dispatch of a command to a registered worker whose breaker lets
\* the call through, when the command is not among the worker's
\* capabilities, returns a CapabilityNotFoundError failure and does not
\* invoke the worker.
C25_Step(c, w) ==
    (dispatch(c, w) /\ w \in agents /\ can_execute(Pre(w), now).ok
        /\ c \notin get_capabilities(w)) =>
        /\ ret'.kind = "CapabilityNotFoundError"
        /\ ~ret'.invoked
        /\ inflight' = inflight

C25_UndeclaredCapabilityFails ==
    [][\A c \in Commands, w \in Workers : C25_Step(c, w)]_vars

\* C25 witness: a dispatch to the registered worker P, let through by its
\* breaker, was refused for the command.
C25_Witness ==
    /\ ret.op = "dispatch" /\ ret.kind = "CapabilityNotFoundError"
    /\ ret.target = "P" /\ "P" \in agents
    /\ inflight["P"] = 0

\* C26: a dispatch that invokes the worker records nothing on the worker's
\* breaker before the worker ends, and when the worker ends it records one
\* outcome on that breaker and on no other: one record_success for a result
\* with success true, one record_failure for a result with success false
\* and for an exception; it then returns the worker's result, or for an
\* exception a failure result whose error_type is the name of the
\* exception's type.
C26_Step(w) ==
    /\ (Did("dispatch", w) /\ ret'.invoked) =>
          /\ Post(w) = can_execute(Pre(w), now).cb
          /\ Post(w).failure_count = Pre(w).failure_count
          /\ Post(w).success_count = Pre(w).success_count
          /\ Post(w).last_failure_time = Pre(w).last_failure_time
    /\ Did("dispatch_return", w) =>
          /\ inflight'[w] = inflight[w] - 1
          /\ Post(w) = IF ret'.kind = "ok" THEN record_success(Pre(w))
                       ELSE record_failure(Pre(w), now)
          /\ ret'.kind \in {"ok", "AgentError", "RuntimeError"}
          /\ \A x \in DOMAIN breakers' \ {w} :
                x \in DOMAIN breakers /\ breakers'[x] = breakers[x]

C26_OneOutcomePerInvocation == [][\A w \in Workers : C26_Step(w)]_vars

\* C26 witness: the worker of a dispatch raised; dispatch returned a failure
\* result named after the exception, and the failure opened the breaker.
C26_Witness ==
    /\ ret.op = "dispatch_return" /\ ret.kind = "RuntimeError"
    /\ ret.before = "closed"
    /\ breakers[ret.target].state = "open"
    /\ breakers[ret.target].failure_count = failure_threshold

(***************************************************************************)
(* Claims about the event bus (checked under SpecBus)                      *)
(***************************************************************************)
RECURSIVE Count(_, _)
Count(h, list) ==
    IF list = <<>> THEN 0
    ELSE (IF Head(list) = h THEN 1 ELSE 0) + Count(h, Tail(list))

\* the subscriptions of handler h that publish of event e had to serve
Subscriptions(e, h) == Count(h, audience[e].exact) + Count(h, audience[e].all)

\* C9: for every published event and every handler, the handler's calls
\* with that event plus its tasks still pending are as many as its
\* subscriptions when the event was published (one call per subscription once
\* the tasks have run), whichever handlers raised, and no exception of a
\* handler leaves _safe_call.
C9_EachSubscriberOnce ==
    /\ ~escaped
    /\ \A e \in EventIds, h \in Handlers :
          calls[e][h] + tasks[e][h] =
             IF e <= Len(audience) THEN Subscriptions(e, h) ELSE 0

\* C9 witness: the one event published had two handlers subscribed to its
\* type, a handler raised, and each was called once.
C9_Witness ==
    /\ Len(audience) = 1
    /\ audience[1].exact = <<"h1", "h2">> /\ audience[1].all = <<>>
    /\ raised
    /\ \A h \in Handlers : calls[1][h] = 1 /\ tasks[1][h] = 0
(***************************************************************************)
(* Claims about the validator (checked under SpecValidate)                 *)
(***************************************************************************)
\* the problem list holds a message msg about detail
HasProblem(msg, detail) ==
    \E i \in 1 .. Len(problems) :
        problems[i].msg = msg /\ problems[i].detail = detail

\* C10: validate on a workflow with no steps returns a non-empty list that
\* holds the "Workflow has no steps" message, and validate on a workflow in
\* which two steps share an id returns a list that holds a "Duplicate step
\* ID" message naming that id.
C10_ValidateReports ==
    pc = "validated" =>
        /\ workflow.steps = <<>> =>
              problems # <<>> /\ HasProblem("Workflow has no steps", <<>>)
        /\ \A a, b \in 1 .. Len(workflow.steps) :
              (a < b /\ workflow.steps[a].id = workflow.steps[b].id) =>
                  HasProblem("Duplicate step ID", workflow.steps[a].id)

\* C10 witness: validate has reported the id shared by two steps that are
\* well-formed otherwise.
C10_Witness ==
    /\ pc = "validated"
    /\ Len(workflow.steps) = 2
    /\ workflow.steps[1].id = workflow.steps[2].id
    /\ Len(problems) = 1
    /\ HasProblem("Duplicate step ID", workflow.steps[2].id)

(***************************************************************************)
(* Claims about execute_workflow (checked under SpecWorkflow)              *)
(***************************************************************************)
Steps == workflow.steps

\* the step just taken saved a failure result for step n
FailedNow(n) ==
    /\ Steps[n].id \notin DOMAIN wf_context.step_results
    /\ Steps[n].id \in DOMAIN wf_context'.step_results
    /\ ~wf_context'.step_results[Steps[n].id].success

\* the loop stands between step n, which failed with on_failure skip or
\* continue, and step n + 1
PastFailed(n) ==
    /\ pc = "loop" /\ wf_context.current_step = n /\ n < Len(Steps)
    /\ Steps[n].id \in DOMAIN wf_context.step_results
    /\ ~wf_context.step_results[Steps[n].id].success
    /\ Steps[n].on_failure \in {"skip", "continue"}

\* the step just taken called _execute_step for step n: the worker is
\* awaited, or the result of the step is saved
Executed(n) ==
    /\ wf_context'.current_step = n
    /\ pc' = "await" \/ Steps[n].id \in DOMAIN wf_context'.step_results

\* the condition of step n is absent or its variable has a value
ConditionMet(n) ==
    \/ Steps[n].condition = <<>>
    \/ ~(startswith(Steps[n].condition) /\ endswith(Steps[n].condition))
    \/ get(wf_context.accumulated_data, var_path(Steps[n].condition)) # Nil

\* the run has ended at step n as a failure of type error_type: it has
\* returned, and no worker is invoked for a later step
EndsAt(n, error_type) ==
    /\ pc' = "done"
    /\ ~result'.success /\ result'.error_type = error_type
    /\ \A k \in 1 .. Len(invocations') : invocations'[k].step <= n

\* a run that has returned does nothing more
Returns == pc = "done" => UNCHANGED <<pc, result, invocations, wf_context>>

\* C7 as stated: when step n has failed with on_failure abort the run ends
\* there as a failure, and when it has failed with skip or continue the next
\* thing the run does is execute step n + 1.
C7_StepAsStated(n) ==
    /\ (FailedNow(n) /\ Steps[n].on_failure = "abort") =>
          EndsAt(n, "WorkflowAbortedError")
    /\ (FailedNow(n) /\ Steps[n].on_failure \in {"skip", "continue"}
            /\ n < Len(Steps)) =>
          pc' = "loop" /\ wf_context'.current_step = n
    /\ PastFailed(n) => Executed(n + 1)

C7_NextStepAlwaysExecuted ==
    [][Returns /\ \A n \in 1 .. Len(Steps) : C7_StepAsStated(n)]_vars

\* C7 amended: when step n has failed with on_failure abort the run ends
\* there as a WorkflowAbortedError failure and no worker is invoked for a
\* later step; when it has failed with skip or continue the run goes on
\* to step n + 1, which it executes if that step has no condition or its
\* condition's variable has a value, and passes over otherwise.
C7_Step(n) ==
    /\ (FailedNow(n) /\ Steps[n].on_failure = "abort") =>
          EndsAt(n, "WorkflowAbortedError") /\ wf_context'.status = "failed"
    /\ (FailedNow(n) /\ Steps[n].on_failure \in {"skip", "continue"}
            /\ n < Len(Steps)) =>
          pc' = "loop" /\ wf_context'.current_step = n
    /\ PastFailed(n) =>
          /\ wf_context'.current_step = n + 1
          /\ Executed(n + 1) <=> ConditionMet(n + 1)

C7_FailurePolicy ==
    [][Returns /\ \A n \in 1 .. Len(Steps) : C7_Step(n)]_vars

\* C7 witness: step 1 failed with on_failure skip, the worker of step 2 was
\* invoked and failed, and on_failure abort of step 2 ended the run.
C7_Witness ==
    /\ pc = "done" /\ result.error_type = "WorkflowAbortedError"
    /\ Len(Steps) = 2
    /\ Steps[1].on_failure = "skip" /\ Steps[2].on_failure = "abort"
    /\ Steps[1].id \in DOMAIN wf_context.step_results
    /\ ~wf_context.step_results[Steps[1].id].success
    /\ Len(invocations) = 2 /\ invocations[2].step = 2

\* step a declares output key y, and has returned y in the payload of a
\* success result
Declares(a, y) ==
    \E k \in 1 .. Len(Steps[a].outputs) : Steps[a].outputs[k] = y
Yielded(a, y) ==
    /\ Steps[a].id \in DOMAIN wf_context.step_results
    /\ wf_context.step_results[Steps[a].id].success
    /\ y \in DOMAIN wf_context.step_results[Steps[a].id].data

\* what C8 gives for ${a.y} in the inputs of step b
Expected(a, y, b) ==
    IF a < b /\ Declares(a, y) /\ Yielded(a, y)
    THEN wf_context.step_results[Steps[a].id].data[y]
    ELSE Nil

OutputKeys == {<<"y">>}

\* the step just taken invoked a worker
Invoked == Len(invocations') = Len(invocations) + 1
Invocation == invocations'[Len(invocations')]

\* C8 as stated: when the worker of step b is invoked, each of its inputs
\* that is a reference ${a.y} to a step a of the workflow has in input_data
\* the value a returned under y if a is before b, declares y and returned y
\* in a success result, and None in every other case.
C8_Step ==
    Invoked =>
        \A a \in 1 .. Len(Steps), y \in OutputKeys,
           p \in 1 .. Len(Steps[Invocation.step].inputs) :
            LET input == Steps[Invocation.step].inputs[p]
            IN  input[2] = Reference(Steps[a].id, y) =>
                    Invocation.input_data[input[1]]
                        = Expected(a, y, Invocation.step)

C8_ReferenceResolvesToOutput == [][C8_Step]_vars

\* C8 restricted to the runs whose params hold no key "a.y" for a step a.
C8_UnseededReferenceResolves ==
    [][(\A a \in 1 .. Len(Steps), y \in OutputKeys :
            Key(Steps[a].id, y) \notin DOMAIN params) => C8_Step]_vars

(***************************************************************************)
(* Claims about the isolation check (checked under SpecScope)              *)
(***************************************************************************)
\* C11: _check_scope raises ScopeViolationError for every path that, with
\* its separators normalized, matches a forbidden pattern, whether or not it
\* matches an allowed one; it returns True only for a path that matches no
\* forbidden pattern and at least one allowed pattern.
C11_ForbiddenWins ==
    scope_ret # "pending" =>
        LET forbidden == \E i \in 1 .. Len(forbidden_paths) :
                            fnmatch(normalize(file_path), forbidden_paths[i])
            allowed == \E i \in 1 .. Len(allowed_paths) :
                            fnmatch(normalize(file_path), allowed_paths[i])
        IN  /\ forbidden => scope_ret = "ScopeViolationError"
            /\ scope_ret = "True" <=> (~forbidden /\ allowed)
            /\ scope_ret \in {"True", "ScopeViolationError"}

\* C11 witness: the path a\b, which matches the allowed a/* and the
\* forbidden *b, was rejected.
C11_Witness ==
    /\ scope_ret = "ScopeViolationError"
    /\ file_path = <<"a", "\\", "b">>
    /\ allowed_paths = <<<<"a", "/", "*">>>>
    /\ forbidden_paths = <<<<"*", "b">>>>

(***************************************************************************)
(* Claims about execute_workflow with hooks (checked under SpecHooks)      *)
(***************************************************************************)
\* C12: execute_workflow never raises, whatever fails while it loads,
\* validates, calls a worker or runs a hook: it is never left by an
\* exception, and when it has returned it has returned a result.
C12_NeverRaises ==
    /\ pc # "raised"
    /\ pc = "done" => result # NoResult

\* the step just taken was a call of execute_workflow that loaded a
\* workflow for which validate returned problems
RefusedByValidate ==
    pc = "idle" /\ pc' # "idle" /\ problems' # <<>>

C13_ResultsInInputOrder ==
    /\ par_pc \in {"idle", "running", "returned"}
    /\ par_pc = "returned" =>
          /\ Len(par_ret) = Len(par_tasks)
          /\ \A i \in 1 .. Len(par_tasks) :
                /\ par_ret[i].kind = "result" /\ par_ret[i].task = i
                /\ \E k \in 1 .. Len(par_done) :
                      /\ par_done[k].task = i
                      /\ par_ret[i].error_type = par_done[k].error_type
                      /\ par_ret[i].success =
                            (par_done[k].kind = "result"
                                /\ par_done[k].success)

\* C13 witness: of two tasks the second ended first, by raising, and the
\* first, started before it, ended with a success; the results are in the
\* order of the tasks.
C13_Witness ==
    /\ par_pc = "returned" /\ Len(par_tasks) = 2
    /\ par_done[1].task = 2 /\ par_done[2].task = 1
    /\ par_done[1].kind = "exception"
    /\ par_ret[2].kind = "result" /\ ~par_ret[2].success
    /\ par_ret[2].error_type = "RuntimeError"
    /\ par_ret[1].success

(***************************************************************************)
(* Claims about the references the validator accepts (SpecValidate)        *)
(***************************************************************************)
\* the ids of the steps declared before step b
EarlierIds(b) == {workflow.steps[a].id : a \in 1 .. b - 1}

\* the step id that the reference value names
ReferredId(value) == split_first(after_marker(value))

\* the problem list holds an unknown-step message of step b about id s
ReportsReference(b, s) ==
    \E i \in 1 .. Len(problems) :
        /\ problems[i].msg = "references unknown step"
        /\ problems[i].step = workflow.steps[b].id
        /\ problems[i].detail = s

\* C16: validate reports every input of a step b that is a reference to an
\* id which is not the id of a step declared before b, so also a reference
\* to a later step and to b itself.
C16_ReportsNonEarlierReferences ==
    pc = "validated" =>
        \A b \in 1 .. Len(workflow.steps) :
            \A p \in 1 .. Len(workflow.steps[b].inputs) :
                LET value == workflow.steps[b].inputs[p][2]
                IN  (startswith(value) /\ ReferredId(value) \notin EarlierIds(b))
                        => ReportsReference(b, ReferredId(value))

\* C16 as the code has it: validate reports exactly the references to an id
\* that no step of the workflow has, wherever that step is declared.
C16_ReportsUnknownReferences ==
    pc = "validated" =>
        \A b \in 1 .. Len(workflow.steps) :
            \A p \in 1 .. Len(workflow.steps[b].inputs) :
                LET value == workflow.steps[b].inputs[p][2]
                IN  startswith(value) =>
                       (ReportsReference(b, ReferredId(value))
                          <=> ReferredId(value) \notin StepIdsOf(workflow.steps))

\* a workflow with unique step ids, a worker, an action and a legal
\* on_failure on every step, whose references are to params or to steps
\* declared earlier
WellFormed ==
    /\ workflow.steps # <<>>
    /\ \A a, b \in 1 .. Len(workflow.steps) :
          a # b => workflow.steps[a].id # workflow.steps[b].id
    /\ \A b \in 1 .. Len(workflow.steps) :
          /\ workflow.steps[b].block_id # ""
          /\ workflow.steps[b].action # ""
          /\ workflow.steps[b].on_failure \in
                {"abort", "skip", "rollback", "continue"}
          /\ \A p \in 1 .. Len(workflow.steps[b].inputs) :
                LET value == workflow.steps[b].inputs[p][2]
                IN  startswith(value) =>
                        ReferredId(value) \in EarlierIds(b) \cup {<<"params">>}

\* C17: validate returns an empty list for a well-formed workflow whose
\* references are ${params.<key>} references and references to earlier
\* steps.
C17_WellFormedIsAccepted ==
    (pc = "validated" /\ WellFormed) => problems = <<>>

(***************************************************************************)
(* Claims about the steps of a run (checked under SpecSteps)               *)
(***************************************************************************)
\* the step of invocation k has its result saved
Resolved(k) == Steps[invocations[k].step].id \in DOMAIN wf_context.step_results

\* C14: the workers of a run are invoked in the order of the steps, and a
\* worker is invoked only when the result of every earlier invocation of the
\* run is saved, whether or not the steps are marked parallel; while a
\* worker is awaited it is the one invoked last.
C14_Step ==
    /\ Invoked =>
          /\ pc = "loop"
          /\ \A k \in 1 .. Len(invocations) :
                invocations[k].step < Invocation.step /\ Resolved(k)
    /\ pc = "await" =>
          /\ invocations # <<>>
          /\ invocations[Len(invocations)].step = wf_context.current_step
          /\ \A k \in 1 .. Len(invocations) - 1 : Resolved(k)

C14_StepsInOrder == [][C14_Step]_vars

\* C14 witness: two steps marked parallel were invoked, the second after
\* the result of the first was saved, and the run is over.
C14_Witness ==
    /\ pc = "done" /\ Len(invocations) = 2
    /\ invocations[1].step = 1 /\ invocations[2].step = 2
    /\ Steps[1].parallel /\ Steps[2].parallel

\* C18: when the worker of a step is invoked, each input of the step written
\* ${params.k} has in input_data the value of key k of the params passed to
\* execute_workflow.
C18_Step ==
    Invoked =>
        \A k \in {<<"k">>},
           p \in 1 .. Len(Steps[Invocation.step].inputs) :
            LET input == Steps[Invocation.step].inputs[p]
            IN  (input[2] = Reference(<<"params">>, k) /\ k \in DOMAIN params)
                    => Invocation.input_data[input[1]] = params[k]

C18_ParamsReferenceResolves == [][C18_Step]_vars

\* the condition of step n is a reference whose value in the accumulated
\* data is not None and, when a list or a dict, not empty
ReferenceHolds(n) ==
    LET path == var_path(Steps[n].condition)
        data == wf_context.accumulated_data
    IN  /\ path \in DOMAIN data
        /\ data[path] # Nil
        /\ data[path] \notin {ListOf(<<>>), DictOf(<<>>)}

\* C19: a step n whose condition is a reference is executed iff the value
\* referred to is in the accumulated data and, if a list or a dict, not
\* empty; otherwise no worker is invoked for it, no breaker is created,
\* consulted or updated, nothing is written to step_results, nothing is
\* published for it, and the run goes on with step n + 1 or, after the last
\* step, completes.
C19_Step(n) ==
    (pc = "loop" /\ wf_context.current_step = n - 1
        /\ wf_context'.current_step = n
        /\ startswith(Steps[n].condition) /\ endswith(Steps[n].condition)) =>
        /\ Executed(n) <=> ReferenceHolds(n)
        /\ ~ReferenceHolds(n) =>
              /\ UNCHANGED <<invocations, breakers>>
              /\ wf_context'.step_results = wf_context.step_results
              /\ wf_context'.accumulated_data = wf_context.accumulated_data
              /\ IF n < Len(Steps)
                 THEN pc' = "loop" /\ UNCHANGED <<busVars>>
                 ELSE pc' = "done" /\ result'.success

C19_ConditionGatesStep ==
    [][\A n \in 1 .. Len(Steps) : C19_Step(n)]_vars

\* C19 witness: the second step was passed over because the list under its
\* condition's key is empty, and the run completed with one invocation.
C19_Witness ==
    /\ pc = "done" /\ result.success /\ Len(Steps) = 2
    /\ Steps[2].condition = Reference(<<"scan">>, <<"files">>)
    /\ Key(<<"scan">>, <<"files">>) \in DOMAIN wf_context.accumulated_data
    /\ wf_context.accumulated_data[Key(<<"scan">>, <<"files">>)] = ListOf(<<>>)
    /\ Steps[2].id \notin DOMAIN wf_context.step_results
    /\ Len(invocations) = 1 /\ invocations[1].step = 1

\* the await of step n's worker ends with the TimeoutError of wait_for
TimedOut(n) ==
    /\ pc = "await" /\ wf_context.current_step = n
    /\ ret'.op = "end_step" /\ ret'.kind = "TimeoutError"

\* C21: when the worker of step n has not returned within the step's
\* timeout, or within default_timeout when the step has none, one failure
\* is recorded on the breaker of that worker and on no other, the result
\* saved for the step is a TimeoutError failure, and the step's on_failure
\* is applied to it: abort and rollback end the run there, any other value
\* lets the run go on to step n + 1 or complete.
C21_Step(n) ==
    TimedOut(n) =>
        LET block == Steps[n].block_id
            cb == BreakerOf(breakers, block)
            call == invocations[Len(invocations)]
        IN  /\ call.step = n
            /\ call.timeout_seconds =
                  IF Steps[n].timeout = NoTime THEN default_timeout
                  ELSE Steps[n].timeout
            /\ breakers'[block].failure_count = cb.failure_count + 1
            /\ breakers'[block].last_failure_time = now
            /\ \A w \in DOMAIN breakers' \ {block} :
                  w \in DOMAIN breakers /\ breakers'[w] = breakers[w]
            /\ wf_context'.step_results[Steps[n].id]
                  = failure_result("TimeoutError")
            /\ CASE Steps[n].on_failure = "abort" ->
                      EndsAt(n, "WorkflowAbortedError")
                 [] Steps[n].on_failure = "rollback" ->
                      EndsAt(n, "WorkflowRollbackError")
                 [] OTHER ->
                      IF n < Len(Steps)
                      THEN pc' = "loop" /\ wf_context'.current_step = n
                      ELSE pc' = "done" /\ result'.success

CompletedEvents(id) ==
    {e \in 1 .. Len(audience) :
        /\ audience[e].type = "workflow.step.completed"
        /\ audience[e].data.step_id = id}

\* C22: for every step whose result execute_workflow has saved, one
\* workflow.step.completed event carrying the step's id and the success
\* flag of its result has been published, whatever the step's on_failure;
\* for a step that has no result, none has.
C22_OneCompletedEventPerStep ==
    \A n \in 1 .. Len(Steps) :
        IF Steps[n].id \in DOMAIN wf_context.step_results
        THEN /\ Cardinality(CompletedEvents(Steps[n].id)) = 1
             /\ \A e \in CompletedEvents(Steps[n].id) :
                   audience[e].data.success
                      = wf_context.step_results[Steps[n].id].success
        ELSE CompletedEvents(Steps[n].id) = {}

\* the hooks of the list that are notify hooks
Notifications(hooks) == {k \in 1 .. Len(hooks) : hooks[k].kind = "notify"}

\* C23: when step n has failed with on_failure rollback and no on_error hook
\* raises, the events execute_workflow publishes from there are one
\* workflow.rollback event naming step n, then the workflow.notification
\* events of the on_error hooks; the run then ends as a
\* WorkflowRollbackError failure, and no worker is invoked for a later step.
C23_Step(n) ==
    (FailedNow(n) /\ Steps[n].on_failure = "rollback"
        /\ ~execute_hooks(Bus, workflow.hooks.on_error).raised) =>
        LET first == Len(audience) + 1
        IN  /\ Len(audience')
                  = first + Cardinality(Notifications(workflow.hooks.on_error))
            /\ SubSeq(audience', 1, Len(audience)) = audience
            /\ audience'[first].type = "workflow.rollback"
            /\ audience'[first].data.step_id = Steps[n].id
            /\ \A e \in first + 1 .. Len(audience') :
                  audience'[e].type = "workflow.notification"
            /\ EndsAt(n, "WorkflowRollbackError")

C24_StatusMatchesResult ==
    (pc = "done" /\ wf_context # NoContext) =>
        wf_context.status = IF result.success THEN "completed" ELSE "failed"

\* C20: a step that is not passed over goes through the checks of dispatch
\* in their order: what begin_step decides for it is what route decides for
\* its action and worker, so a step whose action its worker does not declare
\* ends with CapabilityNotFoundError and no invocation.
C20_Step ==
    (ret'.op = "begin_step" /\ ret'.kind # "skipped") =>
        LET step == Steps[wf_context'.current_step]
        IN  ret'.kind =
               route(can_execute(BreakerOf(breakers, step.block_id), now).ok,
                     step.block_id \in agents,
                     step.action \in get_capabilities(step.block_id))

C20_StepChecksAreDispatchChecks == [][C20_Step]_vars

(***************************************************************************)
(* Claims about publish_and_wait and request (checked under SpecWait)      *)
(***************************************************************************)
\* the step just taken ended the call of op that caller c was waiting in
Ended(c, op) ==
    waits[c].op = op /\ waits[c].pc = "waiting" /\ waits'[c].pc # "waiting"

\* the events published after the event of caller c's call that carry its
\* correlation id, and the first element of a set of events
LaterEvents(c) ==
    {e \in waits[c].event_id + 1 .. Len(audience) :
        audience[e].data.correlation_id = waits[c].correlation_id}
First(events) == CHOOSE e \in events : \A x \in events : e <= x

\* C27: publish_and_wait returns the data of the first event published
\* after its own that carries the same correlation id, and None when there
\* is no such event; when it returns, no future is registered under the
\* correlation id.
C27_Step(c) ==
    Ended(c, "publish_and_wait") =>
        /\ waits'[c].ret =
              IF LaterEvents(c) = {} THEN None
              ELSE audience[First(LaterEvents(c))].data.data
        /\ waits[c].correlation_id \notin DOMAIN pending_responses'

C27_ResolvedByLaterEvent == [][\A c \in Callers : C27_Step(c)]_vars

\* What the code does: publish_and_wait returns the data of the event it
\* published itself, and pops the correlation id.
C27_ResolvedByOwnEvent ==
    [][\A c \in Callers :
          Ended(c, "publish_and_wait") =>
              /\ waits'[c].ret = audience[waits[c].event_id].data.data
              /\ waits[c].correlation_id \notin DOMAIN pending_responses']_vars

\* C29: the event history holds no more than max_history events: the last
\* min(n, max_history) of the n events published, oldest first.
C29_HistoryIsRecent ==
    LET n == Len(audience)
        m == IF n < max_history THEN n ELSE max_history
    IN  /\ Len(event_history) = m
        /\ \A i \in 1 .. m :
              /\ event_history[i].id = n - m + i
              /\ event_history[i].type = audience[n - m + i].type
              /\ event_history[i].data = audience[n - m + i].data

\* C29 witness: one event more than max_history has been published, and
\* the history, which holds more than one event, starts at the second.
C29_Witness ==
    /\ Len(audience) = max_history + 1
    /\ Len(event_history) = max_history /\ max_history > 1
    /\ event_history[1].id = 2
    /\ event_history[1].data # event_history[2].data

\* the response.<correlation id> events published since caller c's request
Responses(c) ==
    {e \in waits[c].event_id + 1 .. Len(audience) :
        audience[e].type = response_type(waits[c].correlation_id)}

\* the response handler of caller c is subscribed in handlers
Subscribed(handlers, c) == \E i \in 1 .. Len(handlers) : handlers[i] = c

\* C28: request returns the data of the first response.<correlation id>
\* event published since its request event, and ends with TimeoutError when
\* there is none; when it has ended its response handler is not subscribed,
\* and from then on no publish creates a task for the handler and nothing
\* changes the call's future or what the call returned.
C28_Step(c) ==
    /\ Ended(c, "request") =>
          /\ IF Responses(c) = {}
             THEN waits'[c].pc = "raised" /\ waits'[c].ret = "TimeoutError"
             ELSE /\ waits'[c].pc = "returned"
                  /\ waits'[c].ret = audience[First(Responses(c))].data.data
          /\ ~Subscribed(response_handlers'[waits[c].correlation_id], c)
    /\ (waits[c].op = "request" /\ waits[c].pc \in {"returned", "raised"}) =>
          /\ waits'[c] = waits[c] /\ futures'[c] = futures[c]
          /\ \A k \in CorrelationIds : ~Subscribed(response_handlers'[k], c)
          /\ \A i \in Len(response_tasks) + 1 .. Len(response_tasks') :
                response_tasks'[i].handler # c

C28_RequestGetsFirstResponse == [][\A c \in Callers : C28_Step(c)]_vars

\* C28 witness: the request of caller 1 has returned the data of the first
\* of two responses; the second, published after the call ended, left no
\* task.
C28_Witness ==
    /\ waits[1].op = "request" /\ waits[1].pc = "returned"
    /\ waits[1].event_id = 1 /\ Len(audience) = 3
    /\ audience[2].type = response_type(waits[1].correlation_id)
    /\ audience[3].type = response_type(waits[1].correlation_id)
    /\ waits[1].ret = audience[2].data.data
    /\ audience[3].data.data # audience[2].data.data
    /\ response_tasks = <<>>
    /\ futures[1].result = waits[1].ret

(***************************************************************************)
(* Claims about the registry (checked under SpecRegistry)                  *)
(***************************************************************************)
\* the elements of a list
Elements(list) == {list[i] : i \in 1 .. Len(list)}

\* C30: every worker id in a list of the capability index is registered,
\* and find_by_capability(c) returns the registered workers whose
\* capabilities contain c, each once; a register of an id that is
\* registered fails and changes neither the registry nor the index.
C30_IndexMatchesRegistry ==
    /\ \A c \in DOMAIN capabilities_index :
          Elements(capabilities_index[c]) \subseteq agents
    /\ \A c \in Commands :
          /\ Elements(find_by_capability(c))
                = {w \in agents : c \in get_capabilities(w)}
          /\ Len(find_by_capability(c))
                = Cardinality({w \in agents : c \in get_capabilities(w)})
    /\ (ret.op = "register" /\ ret.kind = "ValueError") =>
          ret.target \in agents

\* C30 witness: Q was registered with both capabilities next to S and then
\* unregistered; save still finds S, and parse, which only Q had, is no
\* longer a key of the index.
C30_Witness ==
    /\ ret.op = "unregister" /\ ret.target = "Q" /\ ret.kind = "true"
    /\ agents = {"S"}
    /\ find_by_capability("save") = <<"S">>
    /\ "parse" \notin DOMAIN capabilities_index

(***************************************************************************)
(* Further claims about the circuit breaker                                *)
(***************************************************************************)
\* C32: a record_success on a closed breaker sets the failure count to zero
\* whatever it was and leaves the breaker closed with its other fields as
\* they were, so that a failure recorded next is counted as the first one.
C32_Step(w) ==
    (Did("record_success", w) /\ Pre(w).state = "closed") =>
        /\ Post(w) = [Pre(w) EXCEPT !.failure_count = 0]
        /\ Post(w).state = "closed"
        /\ record_failure(Post(w), now).failure_count = 1
        /\ failure_threshold > 1 =>
              record_failure(Post(w), now).state = "closed"

C32_SuccessForgivesFailures == [][\A w \in Workers : C32_Step(w)]_vars

\* C32 witness: a failure was recorded at the present time on a breaker that
\* stayed closed, and a record_success on the closed breaker has left its
\* failure count at zero.
C32_Witness ==
    /\ ret.op = "record_success" /\ ret.before = "closed"
    /\ breakers[ret.target].state = "closed"
    /\ breakers[ret.target].failure_count = 0
    /\ breakers[ret.target].last_failure_time = now

\* C33: reset leaves the breaker closed with both counts zero, whatever its
\* state was, and can_execute on the breaker it leaves is true; reset_all
\* leaves every breaker of the registry so.
Fresh(cb) ==
    /\ cb.state = "closed"
    /\ cb.failure_count = 0
    /\ cb.success_count = 0
    /\ can_execute(cb, now).ok

C33_Step ==
    /\ \A w \in Workers : Did("reset", w) => Fresh(Post(w))
    /\ ret'.op = "reset_all" =>
          /\ DOMAIN breakers' = DOMAIN breakers
          /\ \A w \in DOMAIN breakers' : Fresh(breakers'[w])

C33_ResetCloses == [][C33_Step]_vars

\* C33 witness: reset_all was called on a registry whose breakers were all
\* open, and they are closed with zero counts.
C33_Witness ==
    /\ ret.op = "reset_all" /\ ret.before = "open"
    /\ \A w \in Workers : w \in DOMAIN breakers /\ Fresh(breakers[w])

\* C34: a closed breaker has a failure count below failure_threshold and a
\* success count of zero.
C34_ClosedCounts ==
    \A w \in DOMAIN breakers :
        breakers[w].state = "closed" =>
            /\ breakers[w].failure_count < failure_threshold
            /\ breakers[w].success_count = 0

\* C34 witness: a record_failure has brought the count of a closed breaker
\* to one below failure_threshold and has left the breaker closed.
C34_Witness ==
    /\ ret.op = "record_failure" /\ ret.before = "closed"
    /\ breakers[ret.target].state = "closed"
    /\ breakers[ret.target].failure_count = failure_threshold - 1
    /\ breakers[ret.target].success_count = 0

\* C35: a dispatch whose worker fails when the breaker is already open
\* leaves the breaker open with one more failure counted and with
\* last_failure_time at the time of that failure, so that can_execute is
\* false at every time up to recovery_timeout after that failure and true
\* after it.
C35_Step(w) ==
    (Did("dispatch_return", w) /\ ret'.kind # "ok"
        /\ Pre(w).state = "open") =>
        /\ Post(w).state = "open"
        /\ Post(w).failure_count = Pre(w).failure_count + 1
        /\ Post(w).last_failure_time = now
        /\ \A t \in now .. now + recovery_timeout :
              ~can_execute(Post(w), t).ok
        /\ can_execute(Post(w), now + recovery_timeout + 1).ok

C35_FailureWhileOpenRestamps == [][\A w \in Workers : C35_Step(w)]_vars

\* C35 witness: a call admitted before the breaker opened has failed on the
\* open breaker, later than the time 0, and the breaker counts more failures
\* than failure_threshold.
C35_Witness ==
    /\ ret.op = "dispatch_return" /\ ret.kind # "ok"
    /\ ret.before = "open"
    /\ now > 0
    /\ breakers[ret.target].state = "open"
    /\ breakers[ret.target].failure_count > failure_threshold
    /\ breakers[ret.target].last_failure_time = now

\* C40: a dispatch that returns an AgentNotFoundError or a
\* CapabilityNotFoundError failure records nothing: the failure count, the
\* success count and last_failure_time of the target's breaker are what they
\* were (those of a new breaker when the registry held none for the id), the
\* breakers of the other ids are as they were, and no worker is invoked.
C40_Step(w) ==
    (Did("dispatch", w)
        /\ ret'.kind \in {"AgentNotFoundError", "CapabilityNotFoundError"}) =>
        /\ Post(w).failure_count = Pre(w).failure_count
        /\ Post(w).success_count = Pre(w).success_count
        /\ Post(w).last_failure_time = Pre(w).last_failure_time
        /\ \A x \in DOMAIN breakers' \ {w} :
              x \in DOMAIN breakers /\ breakers'[x] = breakers[x]
        /\ ~ret'.invoked
        /\ inflight' = inflight

InProgress == IF pc \in {"loop", "await"} THEN 1 ELSE 0

\* C36: workflows_executed is workflows_succeeded plus workflows_failed plus
\* the number of execute_workflow calls in progress, so that the two add up
\* to it when no call is in progress: every call that has ended is counted
\* once, as succeeded or as failed.
C36_CountersAddUp ==
    metrics.workflows_executed =
        metrics.workflows_succeeded + metrics.workflows_failed + InProgress

\* C37: the run of an execute_workflow call is in _active_workflows from
\* the creation of its WorkflowContext until the call ends, and is not in
\* it once the call has ended, by a return or by an exception.
C37_ListedWhileRunning ==
    /\ pc \in {"loop", "await"} => WorkflowId \in active_workflows
    /\ pc \in {"idle", "done", "raised"} => WorkflowId \notin active_workflows

(***************************************************************************)
(* Claims about the failure policies skip and continue (checked under      *)
(* SpecPolicy)                                                             *)
(***************************************************************************)
\* the steps of the run of ctx whose saved result is a failure
Failed(ctx) ==
    {n \in 1 .. Len(Steps) :
        /\ Steps[n].id \in DOMAIN ctx.step_results
        /\ ~ctx.step_results[Steps[n].id].success}

\* every step of the run of ctx that has failed has on_failure skip or
\* continue
Tolerated(ctx) ==
    \A n \in Failed(ctx) : Steps[n].on_failure \in {"skip", "continue"}

\* the workflow.notification events published by the step just taken
Notified ==
    {e \in Len(audience) + 1 .. Len(audience') :
        audience'[e].type = "workflow.notification"}

C38_Step ==
    /\ (pc = "loop" /\ Tolerated(wf_context)
            /\ wf_context.current_step < Len(Steps)) =>
          /\ wf_context'.current_step = wf_context.current_step + 1
          /\ Executed(wf_context.current_step + 1)
                <=> ConditionMet(wf_context.current_step + 1)
    /\ \A n \in 1 .. Len(Steps) :
          (FailedNow(n) /\ Steps[n].on_failure \in {"skip", "continue"}) =>
             /\ Len(wf_context'.errors) > Len(wf_context.errors)
             /\ SubSeq(wf_context'.errors, 1, Len(wf_context.errors) + 1) =
                   Append(wf_context.errors,
                          [step |-> Steps[n].id,
                           error |-> wf_context'.step_results[Steps[n].id]
                                        .error_type])
             /\ wf_context'.accumulated_data = wf_context.accumulated_data
    /\ (pc \in {"loop", "await"} /\ pc' \in {"done", "raised"}
            /\ Tolerated(wf_context')
            /\ ~execute_hooks(Bus, workflow.hooks.on_complete).raised) =>
          /\ pc' = "done" /\ result'.success
          /\ wf_context'.status = "completed"
          /\ wf_context'.current_step = Len(Steps)
          /\ Len(wf_context'.errors) = Cardinality(Failed(wf_context'))
          /\ Cardinality(Notified)
                = Cardinality(Notifications(workflow.hooks.on_complete))

Running == pc \in {"loop", "await"}

\* C39: an execute_workflow call that has started a run eventually returns a
\* result, though no worker it awaits ever returns or raises: the loop never
\* goes back to a step, no step has a worker invoked twice, every
\* invocation carries the step's timeout or the default one, and the run
\* leaves each await.
C39_Step ==
    /\ wf_context'.current_step >= wf_context.current_step
    /\ Invoked =>
          /\ \A k \in 1 .. Len(invocations) :
                invocations[k].step < Invocation.step
          /\ Invocation.timeout_seconds > 0
          /\ Invocation.timeout_seconds
                \in {default_timeout, Steps[Invocation.step].timeout}

C39_EventuallyReturns ==
    /\ [][C39_Step]_vars
    /\ Running ~> (pc = "done" /\ result # NoResult)

\* C39 witness: the workers of both steps of a run did not return within
\* the default timeout and the timeout of the step, and the run has
\* returned.
C39_Witness ==
    /\ pc = "done" /\ result # NoResult
    /\ Len(Steps) = 2 /\ Len(invocations) = 2
    /\ \A n \in 1 .. 2 :
          /\ Steps[n].id \in DOMAIN wf_context.step_results
          /\ wf_context.step_results[Steps[n].id].error_type = "TimeoutError"
    /\ invocations[1].timeout_seconds = default_timeout
    /\ invocations[2].timeout_seconds = Steps[2].timeout
    /\ Steps[2].timeout # default_timeout

(***************************************************************************)
(* Claims about the token budget (checked under SpecBudget)                *)
(***************************************************************************)
\* the step just taken was a call of _track_tokens by invocation c
Tracked(c) ==
    /\ executions[c].pc = "running"
    /\ executions'[c].added > executions[c].added

\* C31: a call of _track_tokens by an invocation raises
\* TokenLimitExceededError exactly when the units that invocation has added
\* since it began are above the limit; what an earlier invocation or an
\* overlapping invocation of the worker has added does not count.
C31_Step(c) ==
    Tracked(c) =>
        (executions'[c].pc = "TokenLimitExceededError"
            <=> executions'[c].added > token_limit)

C31_BudgetPerInvocation == [][\A c \in Executions : C31_Step(c)]_vars

\* what the code does: the call raises exactly when the worker's counter,
\* which every invocation adds to and every pre_execute sets to 0, is above
\* the limit; an invocation that runs from its pre_execute to its end with
\* no other invocation of the worker running is held to its own units.
C31_SharedCounter ==
    [][\A c \in Executions :
          Tracked(c) =>
             /\ executions'[c].pc = "TokenLimitExceededError"
                   <=> tokens_used' > token_limit
             /\ (\A x \in Executions \ {c} : executions[x].pc = "idle") =>
                   tokens_used' = executions'[c].added]_vars

(***************************************************************************)
(* Sanity of the state, under every specification                          *)
(***************************************************************************)
TypeOK ==
    /\ pc \in {"idle", "validated", "loop", "await", "done", "raised"}
    /\ wf_context.current_step \in 0 .. Len(workflow.steps)
=============================================================================
